---- MODULE Spec2Model ----
(***************************************************************************)
(* SQL injection detector of dursgo (internal/scanner/sqli/sqli.go).       *)
(* One Scan call is a sequential pipeline: two pre-filters, then for each  *)
(* parameter name five probes (Error, Time, Boolean, Content, AuthBypass), *)
(* each of which sends HTTP requests built from the original parameters.   *)
(* The server is the environment: every response is an input.              *)
(***************************************************************************)
EXTENDS Integers, Sequences, FiniteSets, TLC

(***************************************************************************)
(* Strings (Go packages strings, sort, net/url), character by character.   *)
(***************************************************************************)

\* The bytes the model's strings are made of, in byte order: 0x20..0x5F and
\* 0x61..0x7E (a string of the model holds no control byte and no 0x60).
Ascii == " !\"#$%&'()*+,-./0123456789:;<=>?@ABCDEFGHIJKLMNOPQRSTUVWXYZ[\\]^_abcdefghijklmnopqrstuvwxyz{|}~"

Ch(s, i) == SubSeq(s, i, i)

Chars == {Ch(Ascii, i) : i \in 1..Len(Ascii)}

\* The byte value order of the characters.
Rank == [c \in Chars |-> CHOOSE i \in 1..Len(Ascii) : Ch(Ascii, i) = c]

Min2(a, b) == IF a < b THEN a ELSE b

Max2(a, b) == IF a > b THEN a ELSE b

\* a < b in Go's byte-wise string order.
StrLess(a, b) ==
    LET n == Min2(Len(a), Len(b))
        d == {i \in 1..n : Ch(a, i) # Ch(b, i)}
    IN  IF d = {} THEN Len(a) < Len(b)
        ELSE LET i == CHOOSE j \in d : \A j2 \in d : j <= j2
             IN  Rank[Ch(a, i)] < Rank[Ch(b, i)]

\* The least of a set of positions, 0 when there is none.
Least(hits) == IF hits = {} THEN 0 ELSE CHOOSE i \in hits : \A j \in hits : i <= j

\* strings.Index: the first position of sub in s, 0 when absent.
IndexOf(s, sub) ==
    Least({i \in 1..(Len(s) - Len(sub) + 1) : SubSeq(s, i, i + Len(sub) - 1) = sub})

Upper == "ABCDEFGHIJKLMNOPQRSTUVWXYZ"

Lower == "abcdefghijklmnopqrstuvwxyz"

\* unicode.ToLower on the model's characters.
LowerCh == [c \in Chars |->
              LET i == IndexOf(Upper, c) IN IF i = 0 THEN c ELSE Ch(Lower, i)]

RECURSIVE MapChars(_, _)
\* The string s with every character c replaced by f[c], half by half.
MapChars(f, s) ==
    IF s = "" THEN ""
    ELSE IF Len(s) = 1 THEN f[s]
    ELSE MapChars(f, SubSeq(s, 1, Len(s) \div 2))
           \o MapChars(f, SubSeq(s, (Len(s) \div 2) + 1, Len(s)))

RECURSIVE Replace(_, _, _)
\* strings.Replace(s, old, new, -1), old non-empty
Replace(s, old, new) ==
    LET i == IndexOf(s, old)
    IN  IF i = 0 THEN s
        ELSE SubSeq(s, 1, i - 1) \o new \o Replace(SubSeq(s, i + Len(old), Len(s)), old, new)

RECURSIVE Split(_, _)
\* strings.Split(s, sep) for a one-character sep
Split(s, sep) ==
    LET i == IndexOf(s, sep)
    IN  IF i = 0 THEN <<s>>
        ELSE <<SubSeq(s, 1, i - 1)>> \o Split(SubSeq(s, i + 1, Len(s)), sep)

RECURSIVE Join(_, _)
\* strings.Join
Join(parts, sep) ==
    IF parts = <<>> THEN ""
    ELSE IF Len(parts) = 1 THEN parts[1]
    ELSE parts[1] \o sep \o Join(Tail(parts), sep)

RECURSIVE SortStrings(_)
\* sort.Strings: the strings of the set S in Go's string order.
SortStrings(S) ==
    IF S = {} THEN <<>>
    ELSE LET m == CHOOSE x \in S : \A y \in S \ {x} : StrLess(x, y)
         IN  <<m>> \o SortStrings(S \ {m})

RECURSIVE Itoa(_)
\* strconv.Itoa for a natural number
Itoa(n) ==
    IF n < 10 THEN Ch("0123456789", n + 1)
    ELSE Itoa(n \div 10) \o Ch("0123456789", (n % 10) + 1)

\* time.Duration.String of a duration of d whole seconds: "5s", "1m0s", "1h2m5s".
DurationString(d) ==
    IF d < 60 THEN Itoa(d) \o "s"
    ELSE IF d < 3600 THEN Itoa(d \div 60) \o "m" \o Itoa(d % 60) \o "s"
    ELSE Itoa(d \div 3600) \o "h" \o Itoa((d \div 60) % 60) \o "m" \o Itoa(d % 60) \o "s"

\* The byte of each value; no string here holds a byte outside Ascii.
CharOf == [v \in (32..126) \ {96} |-> Ch(Ascii, IF v < 96 THEN v - 31 ELSE v - 32)]

\* The value of each byte.
ByteOf == [c \in Chars |-> CHOOSE v \in DOMAIN CharOf : CharOf[v] = c]

\* The greatest of a set of positions, 0 when there is none.
Greatest(hits) == IF hits = {} THEN 0 ELSE CHOOSE i \in hits : \A j \in hits : j <= i

\* strings.LastIndex for a one-byte sub: its last position in s, 0 when absent.
LastIndexOf(s, sub) == Greatest({i \in 1..Len(s) : Ch(s, i) = sub})

\* strings.HasPrefix
HasPrefix(s, prefix) == Len(s) >= Len(prefix) /\ SubSeq(s, 1, Len(prefix)) = prefix

\* s[i:] and s[:i] of Go for the 1-based position i.
From(s, i) == SubSeq(s, i, Len(s))

Upto(s, i) == SubSeq(s, 1, i)

\* What lies before and after position i of s, all of s and "" for position 0.
CutAt(s, i) == IF i = 0 THEN <<s, "">> ELSE <<Upto(s, i - 1), From(s, i + 1)>>

\* strings.Cut(s, sep) for a one-byte sep: before and after.
Cut(s, sep) == CutAt(s, IndexOf(s, sep))

Alnum == "0123456789ABCDEFGHIJKLMNOPQRSTUVWXYZabcdefghijklmnopqrstuvwxyz"

\* The letters and digits.
AlnumBytes == {Ch(Alnum, i) : i \in 1..Len(Alnum)}

\* The letters.
Letters == {Ch(Upper \o Lower, i) : i \in 1..52}

HexDigits == "0123456789ABCDEFabcdef"

\* The value of the hex digit at position i of HexDigits, -1 for position 0.
HexValue(i) == IF i > 16 THEN i - 7 ELSE i - 1

\* url.unhex, and -1 for a byte url.ishex rejects.
unhex == [c \in Chars |-> HexValue(IndexOf(HexDigits, c))]

\* The byte of two hex digit values, -1 when one of them is none.
HexPair(hi, lo) == IF hi < 0 \/ lo < 0 THEN -1 ELSE 16 * hi + lo

\* The value of the escape "%XY" at position i of s, -1 when X or Y is missing or
\* no hex digit.
EscapedByte(s, i) ==
    IF i + 2 > Len(s) THEN -1 ELSE HexPair(unhex[Ch(s, i + 1)], unhex[Ch(s, i + 2)])

\* The encoding modes of package url the detector reaches.
Modes == {"encodePath", "encodeHost", "encodeZone", "encodeUserPassword",
          "encodeQueryComponent", "encodeFragment"}

\* url.shouldEscape
shouldEscape(c, mode) ==
    IF c \in AlnumBytes THEN FALSE
    ELSE IF /\ mode \in {"encodeHost", "encodeZone"}
            /\ c \in {"!", "$", "&", "'", "(", ")", "*", "+", ",", ";", "=", ":", "[", "]",
                      "<", ">", "\""}
         THEN FALSE
    ELSE IF c \in {"-", "_", ".", "~"} THEN FALSE
    ELSE IF c \in {"$", "&", "+", ",", "/", ":", ";", "=", "?", "@"}
         THEN CASE mode = "encodePath" -> c = "?"
                [] mode = "encodeUserPassword" -> c \in {"@", "/", "?", ":"}
                [] mode = "encodeFragment" -> FALSE
                [] OTHER -> TRUE
    ELSE IF mode = "encodeFragment" /\ c \in {"!", "(", ")", "*"} THEN FALSE
    ELSE TRUE

\* "%" and the byte value b in two upper-case hex digits.
Percent(b) == "%" \o Ch(HexDigits, (b \div 16) + 1) \o Ch(HexDigits, (b % 16) + 1)

\* What url.escape writes for one byte, per mode: a space of a query component
\* becomes "+", a byte to escape its percent code.
EscCh ==
    [mode \in Modes |->
        [c \in Chars |->
            IF c = " " /\ mode = "encodeQueryComponent" THEN "+"
            ELSE IF shouldEscape(c, mode) THEN Percent(ByteOf[c])
            ELSE c]]

\* url.escape(s, mode)
escape(s, mode) == MapChars(EscCh[mode], s)

\* Whether url.unescape rejects the escape of value v: a "%" without two hex
\* digits after it (-1); in a host an escape of an ASCII byte other than %25; in
\* a zone an escape of a byte a host cannot hold, other than %25 and the space.
BadEscape(v, mode) ==
    \/ v < 0
    \/ mode = "encodeHost" /\ v < 128 /\ v # 37
    \/ /\ mode = "encodeZone"
       /\ v \notin {37, 32}
       /\ (v \notin DOMAIN CharOf \/ shouldEscape(CharOf[v], "encodeHost"))

\* Whether url.unescape rejects the plain byte c: in a host or a zone, a byte a
\* host cannot hold.
BadByte(c, mode) == mode \in {"encodeHost", "encodeZone"} /\ shouldEscape(c, "encodeHost")

\* What url.unescape returns for a string, given whether its first byte or
\* escape is rejected, what that decodes to, and what is returned for the rest.
Unescaped(bad, first, rest) ==
    IF bad \/ rest.err THEN [err |-> TRUE, str |-> ""]
    ELSE [err |-> FALSE, str |-> first \o rest.str]

\* The same for a string that starts with an escape of value v.
UnescapedByte(v, mode, rest) == Unescaped(BadEscape(v, mode), CharOf[v], rest)

RECURSIVE unescape(_, _)
\* url.unescape(s, mode), the error and the string returned: every %XX gives its
\* byte, and in a query component "+" gives a space.
unescape(s, mode) ==
    IF s = "" THEN [err |-> FALSE, str |-> ""]
    ELSE IF Ch(s, 1) = "%"
         THEN UnescapedByte(EscapedByte(s, 1), mode, unescape(From(s, 4), mode))
    ELSE Unescaped(BadByte(Ch(s, 1), mode),
                   IF Ch(s, 1) = "+" /\ mode = "encodeQueryComponent" THEN " " ELSE Ch(s, 1),
                   unescape(From(s, 2), mode))

\* url.unescape of each string in its mode.
unescapeAll(strs, modes) == [i \in 1..Len(strs) |-> unescape(strs[i], modes[i])]

\* One item of a query string as url.parseQuery takes it, d being its two halves
\* unescaped: an item with a semicolon or a bad escape is not ok.
Item(item, d) ==
    [item  |-> item,
     ok    |-> IndexOf(item, ";") = 0 /\ ~d[1].err /\ ~d[2].err,
     key   |-> d[1].str,
     value |-> d[2].str]

\* The item cut at "=", both halves unescaped.
ParsedItem(item) ==
    Item(item, unescapeAll(Cut(item, "="), <<"encodeQueryComponent", "encodeQueryComponent">>))

ParsedItems(items) == [i \in 1..Len(items) |-> ParsedItem(items[i])]

RECURSIVE ValuesOf(_, _, _)
\* The values of key among the items i.., in order.
ValuesOf(kept, key, i) ==
    IF i > Len(kept) THEN <<>>
    ELSE (IF kept[i].key = key THEN <<kept[i].value>> ELSE <<>>) \o ValuesOf(kept, key, i + 1)

\* The values of the items, key -> its values in order.
Grouped(kept) == [key \in {kept[i].key : i \in 1..Len(kept)} |-> ValuesOf(kept, key, 1)]

\* url.parseQuery over the items between "&": an empty item is skipped, an item
\* that is not ok is dropped and makes the error, the others give the values.
parseItems(its) ==
    [err  |-> \E i \in 1..Len(its) : ~its[i].ok,
     vals |-> Grouped(SelectSeq(its, LAMBDA it : it.item # "" /\ it.ok))]

\* url.ParseQuery
parseQuery(query) == parseItems(ParsedItems(IF query = "" THEN <<>> ELSE Split(query, "&")))

\* What url.getScheme returns for a URL without a scheme.
NoScheme(rawURL) == [err |-> FALSE, scheme |-> "", path |-> rawURL]

RECURSIVE getSchemeFrom(_, _)
\* The loop of url.getScheme at position i: letters go on, so do digits, "+",
\* "-" and "." after the first byte; a ":" ends the scheme, and is an error at
\* the first byte; any other byte means there is no scheme.
getSchemeFrom(rawURL, i) ==
    IF i > Len(rawURL) THEN NoScheme(rawURL)
    ELSE IF Ch(rawURL, i) \in Letters THEN getSchemeFrom(rawURL, i + 1)
    ELSE IF Ch(rawURL, i) \in {"0", "1", "2", "3", "4", "5", "6", "7", "8", "9", "+", "-", "."}
         THEN IF i = 1 THEN NoScheme(rawURL) ELSE getSchemeFrom(rawURL, i + 1)
    ELSE IF Ch(rawURL, i) = ":"
         THEN IF i = 1 THEN [err |-> TRUE, scheme |-> "", path |-> ""]
              ELSE [err |-> FALSE, scheme |-> Upto(rawURL, i - 1), path |-> From(rawURL, i + 1)]
    ELSE NoScheme(rawURL)

\* url.getScheme
getScheme(rawURL) == getSchemeFrom(rawURL, 1)

\* url.validOptionalPort
validOptionalPort(port) ==
    \/ port = ""
    \/ /\ Ch(port, 1) = ":"
       /\ \A i \in 2..Len(port) :
              Ch(port, i) \in {"0", "1", "2", "3", "4", "5", "6", "7", "8", "9"}

\* url.validUserinfo
validUserinfo(s) ==
    \A i \in 1..Len(s) :
        \/ Ch(s, i) \in AlnumBytes
        \/ Ch(s, i) \in {"-", ".", "_", ":", "~", "!", "$", "&", "'", "(", ")", "*", "+", ",",
                         ";", "=", "%", "@"}

\* The port url.parseHost checks: what follows the last "]" of a bracketed host,
\* else what starts at the last ":".
PortOf(host, bracket, colon) ==
    IF HasPrefix(host, "[") THEN From(host, bracket + 1)
    ELSE IF colon # 0 THEN From(host, colon)
    ELSE ""

\* The position of the zone "%25" of a bracketed host, 0 when it has none.
ZoneOf(host, bracket) ==
    IF HasPrefix(host, "[") /\ bracket # 0 THEN IndexOf(Upto(host, bracket - 1), "%25") ELSE 0

\* What url.parseHost unescapes: a bracketed host with a zone in three parts
\* (before the zone, the zone up to the bracket, the rest), any other host as a
\* whole.
HostParts(host, bracket, zone) ==
    IF zone = 0 THEN <<host>>
    ELSE <<Upto(host, zone - 1), SubSeq(host, zone, bracket - 1), From(host, bracket)>>

\* The host url.parseHost returns, d being its parts unescaped.
HostOf(bad, d) ==
    IF bad \/ \E i \in 1..Len(d) : d[i].err THEN [err |-> TRUE, host |-> ""]
    ELSE [err |-> FALSE, host |-> Join([i \in 1..Len(d) |-> d[i].str], "")]

\* url.parseHost with the positions of the last "]" and the last ":".
parseHostAt(host, bracket, colon) ==
    HostOf((HasPrefix(host, "[") /\ bracket = 0)
             \/ ~validOptionalPort(PortOf(host, bracket, colon)),
           unescapeAll(HostParts(host, bracket, ZoneOf(host, bracket)),
                       <<"encodeHost", "encodeZone", "encodeHost">>))

\* url.parseHost
parseHost(host) == parseHostAt(host, LastIndexOf(host, "]"), LastIndexOf(host, ":"))

\* A *url.Userinfo; set is FALSE for nil.
NoUser == [set |-> FALSE, username |-> "", password |-> "", passwordSet |-> FALSE]

\* What url.parseAuthority returns, i being the position of the last "@", h the
\* host parsed and d the user and the password unescaped.
AuthorityOf(i, userinfo, h, d) ==
    IF h.err THEN [err |-> TRUE, user |-> NoUser, host |-> ""]
    ELSE IF i = 0 THEN [err |-> FALSE, user |-> NoUser, host |-> h.host]
    ELSE IF ~validUserinfo(userinfo) \/ d[1].err \/ d[2].err
         THEN [err |-> TRUE, user |-> NoUser, host |-> ""]
    ELSE [err |-> FALSE, host |-> h.host,
          user |-> [set |-> TRUE, username |-> d[1].str, password |-> d[2].str,
                    passwordSet |-> IndexOf(userinfo, ":") # 0]]

\* url.parseAuthority with the position of the last "@": the host after it, the
\* user and the password before it.
parseAuthorityAt(authority, i) ==
    AuthorityOf(i, Upto(authority, i - 1), parseHost(From(authority, i + 1)),
                unescapeAll(Cut(Upto(authority, i - 1), ":"),
                            <<"encodeUserPassword", "encodeUserPassword">>))

\* url.parseAuthority
parseAuthority(authority) == parseAuthorityAt(authority, LastIndexOf(authority, "@"))

\* The decoded form d of raw, and raw when it is not the default encoding of the
\* decoded form.
Field(raw, mode, d) ==
    [err |-> d.err, decoded |-> d.str,
     raw |-> IF d.err \/ raw = escape(d.str, mode) THEN "" ELSE raw]

\* URL.setPath and URL.setFragment
setField(raw, mode) == Field(raw, mode, unescape(raw, mode))

\* new(URL), and err for the error returned with it.
EmptyURL ==
    [err |-> FALSE, Scheme |-> "", Opaque |-> "", User |-> NoUser, Host |-> "",
     Path |-> "", RawPath |-> "", OmitHost |-> FALSE, ForceQuery |-> FALSE,
     RawQuery |-> "", Fragment |-> "", RawFragment |-> ""]

\* What url.Parse returns with an error.
BadURL == [EmptyURL EXCEPT !.err = TRUE]

\* Whether url.parse finds an authority at the start of rest.
hasAuthority(scheme, rest) ==
    HasPrefix(rest, "//") /\ (scheme # "" \/ ~HasPrefix(rest, "///"))

\* The authority and the path of s, the path starting at position i (0: none).
SplitAt(s, i) == IF i = 0 THEN <<s, "">> ELSE <<Upto(s, i - 1), From(s, i)>>

\* The authority after the "//" of rest, up to the next "/", and the path from
\* there.
AuthorityAndPath(rest) == SplitAt(From(rest, 3), IndexOf(From(rest, 3), "/"))

\* The URL of url.parse, a being the authority parsed and p the path set.
Hierarchy(scheme, omitHost, forceQuery, rawQuery, a, p) ==
    IF a.err \/ p.err THEN BadURL
    ELSE [EmptyURL EXCEPT !.Scheme = scheme, !.User = a.user, !.Host = a.host,
                          !.Path = p.decoded, !.RawPath = p.raw, !.OmitHost = omitHost,
                          !.ForceQuery = forceQuery, !.RawQuery = rawQuery]

\* The same, has telling whether rest starts with an authority and ap being its
\* authority and path: without an authority all of rest is the path, and the
\* host is omitted after a scheme.
HierarchyOf(scheme, rest, forceQuery, rawQuery, has, ap) ==
    Hierarchy(scheme, ~has /\ scheme # "" /\ HasPrefix(rest, "/"), forceQuery, rawQuery,
              IF has THEN parseAuthority(ap[1])
              ELSE [err |-> FALSE, user |-> NoUser, host |-> ""],
              setField(IF has THEN ap[2] ELSE rest, "encodePath"))

\* url.parse from the authority on, rest being what lies between the scheme and
\* the query.
parseHierarchy(scheme, rest, forceQuery, rawQuery) ==
    HierarchyOf(scheme, rest, forceQuery, rawQuery, hasAuthority(scheme, rest),
                AuthorityAndPath(rest))

\* url.parse after the scheme, c being path cut at its first "?": the query is
\* forced when that "?" is the last byte; a rest that does not start with "/" is
\* opaque after a scheme, and must have no colon in its first segment without
\* one.
parseRest(scheme, path, c) ==
    IF ~HasPrefix(c[1], "/") /\ scheme # ""
    THEN [EmptyURL EXCEPT !.Scheme = scheme, !.Opaque = c[1],
                          !.ForceQuery = Len(c[1]) + 1 = Len(path), !.RawQuery = c[2]]
    ELSE IF ~HasPrefix(c[1], "/") /\ IndexOf(Cut(c[1], "/")[1], ":") # 0 THEN BadURL
    ELSE parseHierarchy(scheme, c[1], Len(c[1]) + 1 = Len(path), c[2])

\* url.parse after url.getScheme returned sc: the scheme goes to lower case.
parseFrom(rawURL, sc) ==
    IF rawURL = "*" THEN [EmptyURL EXCEPT !.Path = "*"]
    ELSE IF sc.err THEN BadURL
    ELSE parseRest(MapChars(LowerCh, sc.scheme), sc.path, Cut(sc.path, "?"))

\* url.parse(rawURL, false): the URL without its fragment.
parse(rawURL) == parseFrom(rawURL, getScheme(rawURL))

\* The URL u with the fragment frag, f being the fragment set.
WithFragment(u, frag, f) ==
    IF u.err \/ frag = "" THEN u
    ELSE IF f.err THEN BadURL
    ELSE [u EXCEPT !.Fragment = f.decoded, !.RawFragment = f.raw]

\* url.Parse of a URL cut at its first "#": the fragment is set last.
ParseCut(c) == WithFragment(parse(c[1]), c[2], setField(c[2], "encodeFragment"))

\* url.Parse
Parse(rawURL) == ParseCut(Cut(rawURL, "#"))

\* url.validEncoded
validEncoded(s, mode) ==
    \A i \in 1..Len(s) :
        \/ Ch(s, i) \in {"!", "$", "&", "'", "(", ")", "*", "+", ",", ";", "=", ":", "@",
                         "[", "]", "%"}
        \/ ~shouldEscape(Ch(s, i), mode)

\* The raw form when it is a valid encoding of the decoded one (d is raw
\* unescaped), else the decoded one escaped.
EscapedOr(raw, decoded, mode, d) ==
    IF raw # "" /\ validEncoded(raw, mode) /\ ~d.err /\ d.str = decoded THEN raw
    ELSE IF decoded = "*" /\ mode = "encodePath" THEN "*"
    ELSE escape(decoded, mode)

\* URL.EscapedPath and URL.EscapedFragment
EscapedForm(raw, decoded, mode) == EscapedOr(raw, decoded, mode, unescape(raw, mode))

\* URL.String, e being user, password and host escaped and f the escaped path
\* and fragment: the scheme, the opaque part or the authority (Userinfo.String
\* and the host) and the path, then the query and the fragment.
StringOf(u, e, f) ==
    LET scheme == IF u.Scheme # "" THEN u.Scheme \o ":" ELSE ""
        auth   == IF /\ u.Scheme # "" \/ u.Host # "" \/ u.User.set
                     /\ ~(u.OmitHost /\ u.Host = "" /\ ~u.User.set)
                  THEN (IF u.Host # "" \/ u.Path # "" \/ u.User.set THEN "//" ELSE "")
                         \o (IF ~u.User.set THEN ""
                             ELSE e[1] \o (IF u.User.passwordSet THEN ":" \o e[2] ELSE "")
                                       \o "@")
                         \o e[3]
                  ELSE ""
        slash  == IF f[1] # "" /\ Ch(f[1], 1) # "/" /\ u.Host # "" THEN "/" ELSE ""
        dot    == IF scheme \o auth \o slash = "" /\ IndexOf(Cut(f[1], "/")[1], ":") # 0
                  THEN "./" ELSE ""
    IN  scheme
          \o (IF u.Opaque # "" THEN u.Opaque ELSE auth \o slash \o dot \o f[1])
          \o (IF u.ForceQuery \/ u.RawQuery # "" THEN "?" \o u.RawQuery ELSE "")
          \o (IF u.Fragment # "" THEN "#" \o f[2] ELSE "")

\* URL.String
String(u) ==
    StringOf(u,
             [i \in 1..3 |->
                 escape(<<u.User.username, u.User.password, u.Host>>[i],
                        <<"encodeUserPassword", "encodeUserPassword", "encodeHost">>[i])],
             [i \in 1..2 |->
                 EscapedForm(<<u.RawPath, u.RawFragment>>[i], <<u.Path, u.Fragment>>[i],
                             <<"encodePath", "encodeFragment">>[i])])

\* The sequence with every element replaced by the least element up to it:
\* left is that of the first half, right that of the second.
JoinMins(left, right) ==
    left \o [x \in 1..Len(right) |-> Min2(left[Len(left)], right[x])]

RECURSIVE PrefixMin(_)
PrefixMin(g) ==
    IF Len(g) <= 1 THEN g
    ELSE JoinMins(PrefixMin(SubSeq(g, 1, Len(g) \div 2)),
                  PrefixMin(SubSeq(g, (Len(g) \div 2) + 1, Len(g))))

\* Row i of the edit-distance table as far as deletion and substitution decide
\* it, each cell less its column; above is row i-1, column j at index j + 1.
LevSteps(a, b, i, above) ==
    [j \in 1..(Len(b) + 1) |->
        IF j = 1 THEN i
        ELSE Min2(above[j] + 1,
                  above[j - 1] + (IF Ch(a, i) = Ch(b, j - 1) THEN 0 ELSE 1)) - (j - 1)]

\* The cells with their columns added back.
AddColumns(m) == [j \in 1..Len(m) |-> m[j] + (j - 1)]

\* Row i of the table: a cell is the least of deletion, substitution and the
\* cell to its left plus one insertion, which makes it its column plus the
\* least of LevSteps up to it.
LevRow(a, b, i, above) == AddColumns(PrefixMin(LevSteps(a, b, i, above)))

RECURSIVE LevFrom(_, _, _, _)
\* The last cell of the table, from row i on; above is row i-1.
LevFrom(a, b, i, above) ==
    IF Len(above) = Len(b) + 1 /\ i <= Len(a)
    THEN LevFrom(a, b, i + 1, LevRow(a, b, i, above))
    ELSE above[Len(b) + 1]

\* levenshtein.Calculate with unit costs for insert, delete and substitute.
Calculate(a, b) == LevFrom(a, b, 1, [j \in 1..(Len(b) + 1) |-> j - 1])

(***************************************************************************)
(* The detector's tables.                                                  *)
(***************************************************************************)

\* ignoredParams
ignoredParams == {"_csrf_token", "csrf_token", "csrf", "token", "_token"}

\* specialPaths
specialPaths == <<"/comment", "/register">>

\* loginUserParams of testAuthBypass
loginUserParams == {"username", "user", "email", "login"}

\* The payload catalog (package payloads), a small instance of each list.
SQLiPayloads == <<"'", "')">>

\* Error patterns; each regular expression is a literal here.
SQLiErrorPatterns == <<"SQL syntax", "ORA-">>

TimeBasedSQLiTests == <<
    [PayloadTemplate |-> "' AND SLEEP({DELAY})--"],
    [PayloadTemplate |-> ") OR SLEEP({DELAY})#"] >>

BooleanSQLiTests == <<
    [TruePayload |-> " AND 1=1", FalsePayload |-> " AND 1=2"],
    [TruePayload |-> "' AND '1'='1", FalsePayload |-> "' AND '1'='2"] >>

\* bypassPayloads of testContentBased
ContentPayloads == <<"' OR 1=1--", "' OR '1'='1'--", " OR 1=1--", "') OR 1=1--",
                     " OR 1=1#", "' OR 1=1#">>

\* bypassPayloads of testAuthBypass
AuthPayloads == <<"admin'--", "administrator'--", "' OR 1=1--">>

\* successKeywords of the redirect path (after the follow-up GET)
RedirectKeywords == <<"logout", "my account", "log out", "sign out">>

\* successKeywords of the differential path
BodyKeywords == <<"logout", "my account", "log out", "sign out", "welcome">>

\* The five probes in the order Scan calls them.
ProbeOrder == <<"Error", "Time", "Boolean", "Content", "AuthBypass">>

TypeOf(probe) ==
    CASE probe = "Error"      -> "SQL Injection (Error-Based)"
      [] probe = "Time"       -> "SQL Injection (Time-Based)"
      [] probe = "Boolean"    -> "SQL Injection (Boolean-Based)"
      [] probe = "Content"    -> "SQL Injection (Content-Based)"
      [] probe = "AuthBypass" -> "SQL Injection (Auth Bypass)"

\* strings.Replace(payload.PayloadTemplate, "{DELAY}", "5", -1)
PayloadStr(test) == Replace(test.PayloadTemplate, "{DELAY}", "5")

(***************************************************************************)
(* Inputs: the requests handed to Scan and the responses of the server.    *)
(***************************************************************************)

\* The longest paramNames sequence of a request.
MaxParams == 2

\* The number of request classes a deterministic server tells apart.
DetClasses == 3

Methods == {"GET", "POST", "PUT"}

URLs == {"http://h/a?id=1&id=2&user=x&password=y",
         "http://h/register?id=1",
         "http://h/comment?id=1",
         "http://h/%zz?id=1"}

Forms == {"id=1&user=x&password=y", "id=%zz"}

Names == {"id", "Token", "user", "Login"}

NameSeqs == UNION {[1..n -> Names] : n \in 0..MaxParams}

\* crawler.ParameterizedRequest; the form body only travels with a POST.
Requests ==
    {r \in [Method : Methods, URL : URLs, FormPostData : Forms \cup {""},
            ParamNames : NameSeqs] :
        (r.Method = "POST") <=> (r.FormPostData # "")}

\* Response bodies: a page, the same page with one character changed, the page
\* grown by two and by three characters, an error page, and two logged-in pages.
PageA == "<p>item 1: found</p>"

PageA1 == "<p>item 2: found</p>"

PageA22 == "<p>item 1: found</p>ab"

PageA23 == "<p>item 1: found</p>abc"

PageSQL == "ORA-1: SQL syntax"

PageWelcome == "Welcome back admin"

PageLogout == "<a>Log Out</a>"

Bodies == {"", PageA, PageA1, PageA22, PageA23, PageSQL, PageWelcome, PageLogout}

\* What one HTTP exchange gives the detector: a transport error, or a status, a
\* body (readErr: reading it fails), a duration in seconds, and, for a redirect,
\* the Location header (locErr: absent or unparsable) and the cookies set.
Response(status, body, dur, locErr, cookies, readErr) ==
    [err |-> FALSE, status |-> status, body |-> body, dur |-> dur, locErr |-> locErr,
     location |-> IF locErr THEN "" ELSE "http://h/home", cookies |-> cookies,
     readErr |-> readErr]

ErrResp ==
    [err |-> TRUE, status |-> 0, body |-> "", dur |-> 0, locErr |-> TRUE,
     location |-> "", cookies |-> <<>>, readErr |-> FALSE]

OkPage(body) == Response(200, body, 0, TRUE, <<>>, FALSE)

ReadFail == Response(200, "", 0, TRUE, <<>>, TRUE)

\* The responses each kind of request is tried against when the server is free.
ErrorInputs == {ErrResp, ReadFail} \cup {OkPage(b) : b \in {PageA, PageSQL}}

TimeInputs == {ErrResp} \cup {Response(200, PageA, d, TRUE, <<>>, FALSE) : d \in {0, 1, 4, 5}}

BooleanInputs == {ErrResp} \cup {OkPage(b) : b \in {PageA, PageA1, PageSQL}}

ContentInputs == {ErrResp} \cup {OkPage(b) : b \in {PageA, PageA22, PageA23}}

AuthBaseInputs == {ErrResp} \cup {OkPage(b) : b \in {PageA, PageWelcome}}

\* Answers to a bypass attempt: a failed exchange, pages with and without a
\* success keyword, a body that cannot be read, the two ends of the redirect
\* range and the first status past it, redirects without a Location or without
\* a cookie.
AuthInputs ==
    {ErrResp,
     Response(200, PageA, 0, TRUE, <<>>, FALSE),
     Response(200, PageWelcome, 0, TRUE, <<>>, FALSE),
     Response(200, PageLogout, 0, TRUE, <<>>, FALSE),
     Response(200, "", 0, TRUE, <<>>, TRUE),
     Response(400, PageWelcome, 0, FALSE, <<"SID">>, FALSE),
     Response(300, PageWelcome, 0, TRUE, <<"SID">>, FALSE),
     Response(300, PageWelcome, 0, FALSE, <<>>, FALSE),
     Response(300, PageA, 0, FALSE, <<"SID">>, FALSE),
     Response(399, PageWelcome, 0, FALSE, <<"SID">>, FALSE)}

FollowInputs == {ErrResp} \cup {OkPage(b) : b \in {PageA, PageLogout, PageWelcome}}

\* The responses a deterministic server answers with.
DetResponses ==
    {ErrResp, OkPage(PageA), OkPage(PageSQL), OkPage(PageA23), OkPage(PageLogout),
     Response(200, PageA, 66, TRUE, <<>>, FALSE),
     Response(300, PageA, 0, FALSE, <<"SID">>, FALSE)}

(***************************************************************************)
(* The string functions on the strings the inputs above give rise to,      *)
(* tabulated once; any other argument is computed.                         *)
(***************************************************************************)

SeqSet(q) == {q[i] : i \in 1..Len(q)}

\* A tabulated function where the table has the argument, the computed value
\* elsewhere.
Lookup(table, x, computed) == IF x \in DOMAIN table THEN table[x] ELSE computed

QueryStrings ==
    {LET p == IF IndexOf(u, "#") = 0 THEN u ELSE Upto(u, IndexOf(u, "#") - 1)
     IN  From(p, IndexOf(p, "?") + 1) : u \in URLs} \cup Forms \cup {""}

ParseQueryMemo == [q \in QueryStrings |-> parseQuery(q)]

ParseMemo == [u \in URLs |-> Parse(u)]

\* url.Parse of the URL of a request.
ParseURL(u) == Lookup(ParseMemo, u, Parse(u))

\* url.ParseQuery
ParseQuery(query) == Lookup(ParseQueryMemo, query, parseQuery(query))


ValuesIn(vals) == UNION {SeqSet(vals[key]) : key \in DOMAIN vals}

\* The keys and the values of the parsed query strings.
KeysOf(parsed) == UNION {DOMAIN parsed[q].vals : q \in DOMAIN parsed}

ValuesAmong(parsed) == UNION {ValuesIn(parsed[q].vals) : q \in DOMAIN parsed}

\* The payload strings of the four appending probes.
TimePayloads == [i \in 1..Len(TimeBasedSQLiTests) |-> PayloadStr(TimeBasedSQLiTests[i])]

AppendedPayloads ==
    SeqSet(SQLiPayloads) \cup SeqSet(TimePayloads) \cup SeqSet(ContentPayloads)
    \cup {BooleanSQLiTests[i].TruePayload : i \in 1..Len(BooleanSQLiTests)}
    \cup {BooleanSQLiTests[i].FalsePayload : i \in 1..Len(BooleanSQLiTests)}

\* The strings the probes put in a parameter, given the original values.
SentValues(orig) ==
    orig \cup {v \o p : v \in orig, p \in AppendedPayloads}
    \cup SeqSet(AuthPayloads) \cup {"dursgo-test-user", "dursgo-test-pass", "password"}

\* The keys and values Encode escapes.
Escaped(parsed) == KeysOf(parsed) \cup Names \cup SentValues({""} \cup ValuesAmong(parsed))

EscapeMemo == [s \in Escaped(ParseQueryMemo) |-> escape(s, "encodeQueryComponent")]

\* url.QueryEscape
QueryEscape(s) == Lookup(EscapeMemo, s, escape(s, "encodeQueryComponent"))

LowerMemo == [s \in Bodies \cup Names |-> MapChars(LowerCh, s)]

\* strings.ToLower
ToLower(s) == Lookup(LowerMemo, s, MapChars(LowerCh, s))

SearchedFor ==
    SeqSet(BodyKeywords) \cup SeqSet(RedirectKeywords) \cup SeqSet(SQLiErrorPatterns)

\* The bodies and the lowercased bodies.
Searched(lower) == DOMAIN lower \cup {lower[s] : s \in DOMAIN lower}

ContainsMemo ==
    [p \in {<<s, sub>> : s \in Searched(LowerMemo), sub \in SearchedFor} |->
        IndexOf(p[1], p[2]) # 0]

\* strings.Contains
Contains(s, sub) == Lookup(ContainsMemo, <<s, sub>>, IndexOf(s, sub) # 0)

DistanceMemo == [p \in {<<a, b>> : a \in Bodies, b \in Bodies} |-> Calculate(p[1], p[2])]

\* levenshtein.Distance(a, b, nil)
Distance(a, b) == Lookup(DistanceMemo, <<a, b>>, Calculate(a, b))

RECURSIVE Checksum(_)
\* The sum of the byte ranks of s, half by half.
Checksum(s) ==
    IF s = "" THEN 0
    ELSE IF Len(s) = 1 THEN Rank[s]
    ELSE Checksum(SubSeq(s, 1, Len(s) \div 2))
           + Checksum(SubSeq(s, (Len(s) \div 2) + 1, Len(s)))

\* The class of a request on the wire: a function of what is sent, nothing else.
Class(w) ==
    (Checksum(w.method) + Checksum(w.url) + Checksum(w.body)
       + Checksum(Join(w.cookies, "&"))) % DetClasses

(***************************************************************************)
(* url.Values: a map from key to a slice of values.  Slices live in a heap *)
(* so that two maps can share one slice, as a Go map copy does.            *)
(***************************************************************************)

\* A url.Values in memory: m maps each key to its slice, h is the heap of arrays.
EmptyMem == [m |-> <<>>, h |-> <<>>]

\* A slice: the first len elements of the array at address at; its capacity is
\* the length of that array.
Slice(at, len) == [at |-> at, len |-> len]

\* The map seen through its heap: key -> sequence of values.
Deref(mem) ==
    [key \in DOMAIN mem.m |-> SubSeq(mem.h[mem.m[key].at], 1, mem.m[key].len)]

\* The capacity append gives a full slice of capacity cap that grows by one
\* element (runtime.growslice below 256 elements: twice the old one).
NewCap(cap) == IF cap = 0 THEN 1 ELSE 2 * cap

RECURSIVE CapFrom(_, _)
CapFrom(cap, n) == IF cap >= n THEN cap ELSE CapFrom(NewCap(cap), n)

\* The capacity of a slice that got its n elements from n appends to nil.
CapOf(n) == CapFrom(0, n)

\* An array of cap elements starting with vals, the rest zero values.
Array(vals, cap) == vals \o [i \in 1..(cap - Len(vals)) |-> ""]

\* append(s, value) for the slice s of heap h: in place when s has room, into a
\* new array otherwise.
append(h, s, value) ==
    IF s.len < Len(h[s.at])
    THEN [s |-> Slice(s.at, s.len + 1), h |-> [h EXCEPT ![s.at][s.len + 1] = value]]
    ELSE [s |-> Slice(Len(h) + 1, s.len + 1),
          h |-> Append(h, Array(Append(SubSeq(h[s.at], 1, s.len), value),
                                NewCap(Len(h[s.at]))))]

\* The values vals stored behind the keys ks (in this order) after the heap h,
\* each slice as url.parseQuery's m[key] = append(m[key], value) leaves it.
AllocAt(vals, ks, h) ==
    [m |-> [key \in DOMAIN vals |->
               Slice(Len(h) + (CHOOSE i \in 1..Len(ks) : ks[i] = key), Len(vals[key]))],
     h |-> h \o [i \in 1..Len(ks) |-> Array(vals[ks[i]], CapOf(Len(vals[ks[i]])))]]

\* Store the values vals (key -> sequence) as a new map with new slices, after heap h.
Alloc(vals, h) == AllocAt(vals, SortStrings(DOMAIN vals), h)

\* Values.Get: the first value of the key, "" when there is none.
Get(mem, key) ==
    IF key \in DOMAIN mem.m /\ mem.m[key].len > 0 THEN mem.h[mem.m[key].at][1] ELSE ""

\* A Set that writes the value into the key's existing array instead of a new one.
SetInPlace(mem, key, value) ==
    IF key \in DOMAIN mem.m /\ Len(mem.h[mem.m[key].at]) > 0
    THEN [m |-> [mem.m EXCEPT ![key] = Slice(mem.m[key].at, 1)],
          h |-> [mem.h EXCEPT ![mem.m[key].at][1] = value]]
    ELSE [m |-> [key2 \in DOMAIN mem.m \cup {key} |->
                    IF key2 = key THEN Slice(Len(mem.h) + 1, 1) ELSE mem.m[key2]],
          h |-> Append(mem.h, <<value>>)]

\* Values.Set: v[key] = []string{value}, a new slice of one element.
Set(mem, key, value) ==
    [m |-> [key2 \in DOMAIN mem.m \cup {key} |->
               IF key2 = key THEN Slice(Len(mem.h) + 1, 1) ELSE mem.m[key2]],
     h |-> Append(mem.h, <<value>>)]

RECURSIVE EncodeFrom(_, _, _)
EncodeFrom(vals, ks, i) ==
    IF i > Len(ks) THEN <<>>
    ELSE LET e == [x \in {ks[i]} \cup SeqSet(vals[ks[i]]) |-> QueryEscape(x)]
         IN  [j \in 1..Len(vals[ks[i]]) |-> e[ks[i]] \o "=" \o e[vals[ks[i]][j]]]
               \o EncodeFrom(vals, ks, i + 1)

\* Values.Encode: "k=v" items sorted by key, escaped, joined by "&".
Encode(vals) == Join(EncodeFrom(vals, SortStrings(DOMAIN vals), 1), "&")

(***************************************************************************)
(* The detector's helper functions.                                        *)
(***************************************************************************)

\* A pre-filter that looks at the method only.
SupportedAnyPath(r) == r.Method = "GET" \/ r.Method = "POST"

\* The pre-filters of Scan: the method is GET or POST and no special path occurs
\* in the URL.
Supported(r) ==
    /\ r.Method = "GET" \/ r.Method = "POST"
    /\ \A i \in 1..Len(specialPaths) : ~Contains(r.URL, specialPaths[i])

\* An ignore test that compares the name as it is written.
IgnoredExactCase(name) == name \in ignoredParams

\* The ignore test of the parameter loop.
Ignored(name) == ToLower(name) \in ignoredParams

\* u.Query() of a parsed URL: its errors are dropped.
Query(u) ==
    IF u.err THEN [err |-> TRUE, vals |-> <<>>]
    ELSE [err |-> FALSE, vals |-> ParseQuery(u.RawQuery).vals]

\* getOriginalParams: the values of the URL's query (GET) or of the form body.
getOriginalParams(r) ==
    IF r.Method = "GET" THEN Query(ParseURL(r.URL)) ELSE ParseQuery(r.FormPostData)

\* A copyParams that copies every slice.
copyParamsDeep(mem) == Alloc(Deref(mem), mem.h)

\* copyParams: a new map whose keys point to the SAME slices (newParams[k] = v).
copyParams(mem) == [m |-> mem.m, h |-> mem.h]

\* The two branches of buildRequestComponents, u the parsed req.URL and q the
\* encoded parameters: u.RawQuery = q; u.String() for a GET.
Components(r, u, q) ==
    IF r.Method = "GET"
    THEN [err |-> u.err,
          url |-> IF u.err THEN "" ELSE String([u EXCEPT !.RawQuery = q]),
          body |-> ""]
    ELSE [err |-> FALSE, url |-> r.URL, body |-> q]

\* buildRequestComponents: the URL and the body of the request carrying vals.
buildRequestComponents(r, vals) == Components(r, ParseURL(r.URL), Encode(vals))

\* http.NewRequest(req.Method, testURL, reqBody): fails on a URL that does not parse.
NewRequest(method, c) ==
    [err |-> c.err \/ Parse(c.url).err,
     method |-> method, url |-> c.url, body |-> c.body, cookies |-> <<>>]

\* The request put on the wire by sendRequest, measureRequestDuration or the
\* redirect-inhibited client.
Wire(r, vals) == NewRequest(r.Method, buildRequestComponents(r, vals))

\* The follow-up request of client.GetWithCookies.
FollowWire(location, cookies) ==
    [err |-> FALSE, method |-> "GET", url |-> location, body |-> "", cookies |-> cookies]

\* getParamLocation
getParamLocation(r) == IF r.Method = "GET" THEN "query" ELSE "body"

\* A comparison that takes a similarity of exactly 0.95 for a difference.
isDifferentInclusive(original, modified) ==
    IF Max2(Len(original), Len(modified)) = 0 THEN FALSE
    ELSE 20 * Distance(original, modified) >= Max2(Len(original), Len(modified))

\* isDifferentResponse: similarity 1 - distance/maxLen below 0.95, i.e.
\* 20 * distance > maxLen; two empty bodies are not different.
isDifferentResponse(original, modified) ==
    IF Max2(Len(original), Len(modified)) = 0 THEN FALSE
    ELSE 20 * Distance(original, modified) > Max2(Len(original), Len(modified))

\* Whether the lowercased text has one of the first n keywords.
AnyOf(lowered, keywords, n) == \E i \in 1..n : Contains(lowered, keywords[i])

\* Whether the lowercased text contains one of the keywords.
HasKeyword(text, keywords) == AnyOf(ToLower(text), keywords, Len(keywords))

\* The first of the strings (in list order) the text contains, "" when it
\* contains none.
FirstIn(text, strs) ==
    IF ~AnyOf(text, strs, Len(strs)) THEN ""
    ELSE strs[CHOOSE i \in 1..Len(strs) :
                 Contains(text, strs[i]) /\ ~AnyOf(text, strs, i - 1)]

\* The first keyword (in list order) the lowercased text contains.
FirstKeyword(text, keywords) == FirstIn(ToLower(text), keywords)

\* regexp.MatchString over the pattern list: some pattern matches the body.
MatchesError(body) == AnyOf(body, SQLiErrorPatterns, Len(SQLiErrorPatterns))

\* The last pattern (in list order) that matches.
LastPattern(body) ==
    IF ~MatchesError(body) THEN ""
    ELSE SQLiErrorPatterns[CHOOSE i \in 1..Len(SQLiErrorPatterns) :
             /\ Contains(body, SQLiErrorPatterns[i])
             /\ \A j \in (i + 1)..Len(SQLiErrorPatterns) :
                   ~Contains(body, SQLiErrorPatterns[j])]

\* The first pattern (in list order) that matches; re.FindString gives its match.
FirstPattern(body) == FirstIn(body, SQLiErrorPatterns)

(***************************************************************************)
(* The state of one Scan call.                                             *)
(***************************************************************************)
VARIABLES
    req,                  \* the request being scanned
    server,               \* AnyServer, or the deterministic server's table
    run,                  \* which Scan call on req this is (1 or 2)
    prev,                 \* the findings of the previous Scan call
    pc,                   \* where Scan is
    paramIdx,             \* position of ParamLoop in req.ParamNames
    k,                    \* position of the current probe in its payload list
    findings,             \* the findings slice of Scan
    retErr,               \* the error Scan returned ("unset" before it returns)
    baselineDuration,     \* testTimeBased
    originalBody,         \* testBooleanBased
    originalLength,       \* testContentBased
    failureBaselineBody,  \* testAuthBypass
    trueBody,             \* testBooleanBased, between the TRUE and the FALSE request
    originalParams,       \* testBooleanBased, testContentBased: the map and its heap
    resp,                 \* testAuthBypass, the redirect waiting for its follow-up
    last,                 \* history: the last attempt and what came of it
    trace,                \* history: the probes called, and which one hit
    log,                  \* history: the requests the running probe has sent
    unread,               \* history: a response of this Scan was left with its body unread
    other,                \* the frame of the Scan call that is not running, if there is one
    newParams,            \* the map copyParams returned, when it is looked at on its own
    diff                  \* the two bodies isDifferentResponse is called on, and its results

locals == <<baselineDuration, originalBody, originalLength, failureBaselineBody,
            trueBody, originalParams, resp>>

vars == <<req, server, run, prev, pc, paramIdx, k, findings, retErr,
          baselineDuration, originalBody, originalLength, failureBaselineBody,
          trueBody, originalParams, resp, last, trace, log, unread, other, newParams, diff>>

NoWire == [err |-> TRUE, method |-> "", url |-> "", body |-> "", cookies |-> <<>>]

\* One attempt: which probe made it, of what kind ("base", "inject", "follow";
\* "injectTrue" and "injectFalse" for the two requests of a boolean pair),
\* for which payload, the request sent, how it failed ("" when it did not:
\* "parse" and "build" fail before anything is sent, "gate" is the auth-bypass
\* name test), the response and the baseline values the decision used.
Attempt(probe, kind, w, failure, r, base) ==
    [probe |-> probe, kind |-> kind, k |-> k, idx |-> paramIdx, wire |-> w,
     failure |-> failure, resp |-> r, base |-> base,
     unread |-> unread \/ pc = "AuthFollow"]

NoAttempt ==
    [probe |-> "", kind |-> "", k |-> 0, idx |-> 0, wire |-> NoWire,
     failure |-> "", resp |-> ErrResp, base |-> <<>>, unread |-> FALSE]

Issued(a) == a.probe # "" /\ a.failure \notin {"parse", "build", "gate"}

\* How sendRequest fails on response r: client.Do or io.ReadAll returned an error.
SendFailure(r) == IF r.err THEN "transport" ELSE IF r.readErr THEN "read" ELSE ""

\* measureRequestDuration ignores the result of draining the body.
MeasureFailure(r) == IF r.err THEN "transport" ELSE ""

\* A server that is free to answer each request with any response: no table.
AnyServer == <<>>

\* The responses the server may give to the request w.
Allowed(inputs, w) == IF server = AnyServer THEN inputs ELSE {server[Class(w)]}

NewEntry(probe) == [idx |-> paramIdx, probe |-> probe, hit |-> FALSE]

\* The log after attempt a: a request that was sent is written down.
Logged(a) == IF Issued(a) THEN Append(log, [kind |-> a.kind, k |-> a.k]) ELSE log

\* Where a probe's payload loop is.
LoopPc(probe) ==
    CASE probe = "Error"      -> "Error"
      [] probe = "Time"       -> "Time"
      [] probe = "Boolean"    -> "BoolTrue"
      [] probe = "Content"    -> "Content"
      [] probe = "AuthBypass" -> "Auth"

\* Where a probe starts.
StartPc(probe) ==
    CASE probe = "Error"      -> "Error"
      [] probe = "Time"       -> "TimeBase"
      [] probe = "Boolean"    -> "BoolBase"
      [] probe = "Content"    -> "ContentBase"
      [] probe = "AuthBypass" -> "AuthBase"

\* resp.StatusCode >= 300 && resp.StatusCode < 400
IsRedirect(status) == status >= 300 /\ status < 400

\* A redirect path that takes "welcome" for a sign of a session too.
PathAHitWithWelcome(finalBody) == HasKeyword(finalBody, BodyKeywords)

\* The redirect path: a success keyword in the page the redirect leads to.
PathAHit(finalBody) == HasKeyword(finalBody, RedirectKeywords)

\* Whether attempt a ends with a response body neither read nor drained: a
\* redirect whose Location does not parse or that set no cookie is dropped by
\* `continue`; after the follow-up GET the redirect's body is read only on the
\* way to the differential path, so not when the follow-up failed or the
\* redirect path hit.
LeftUnread(a) ==
    /\ a.probe = "AuthBypass"
    /\ \/ /\ a.kind = "inject"
          /\ ~a.resp.err
          /\ IsRedirect(a.resp.status)
          /\ a.resp.locErr \/ Len(a.resp.cookies) = 0
       \/ /\ a.kind = "follow"
          /\ a.resp.err \/ PathAHit(a.resp.body)

\* No other call: a Scan on its own.
NoFrame == <<>>

\* The probe Scan calls second instead of testTimeBased if Time and Boolean swap.
NextProbeSwapped(probe) ==
    CASE probe = "Error"   -> "Boolean"
      [] probe = "Boolean" -> "Time"
      [] probe = "Time"    -> "Content"
      [] probe = "Content" -> "AuthBypass"

\* The probe Scan calls after `probe` reported no hit.
NextProbe(probe) ==
    CASE probe = "Error"   -> "Time"
      [] probe = "Time"    -> "Boolean"
      [] probe = "Boolean" -> "Content"
      [] probe = "Content" -> "AuthBypass"

ResetLocals ==
    /\ baselineDuration' = 0
    /\ originalBody' = ""
    /\ originalLength' = 0
    /\ failureBaselineBody' = ""
    /\ trueBody' = ""
    /\ originalParams' = EmptyMem
    /\ resp' = ErrResp

\* The probe goes on inside itself, to pc2 and payload k2.
Stay(a, pc2, k2) ==
    /\ pc' = pc2
    /\ k' = k2
    /\ last' = a
    /\ log' = Logged(a)
    /\ unread' = (unread \/ LeftUnread(a))
    /\ UNCHANGED <<paramIdx, findings, trace>>

\* findings = append(findings, vuln) put at the wrong end.
AppendFindingFront(fs, f) == <<f>> \o fs

\* findings = append(findings, vuln)
AppendFinding(fs, f) == Append(fs, f)

\* The probe returns (vuln, true): Scan appends and continues ParamLoop.
Hit(a, f) ==
    /\ findings' = AppendFinding(findings, f)
    /\ pc' = "param"
    /\ paramIdx' = paramIdx + 1
    /\ k' = 0
    /\ last' = a
    /\ trace' = [trace EXCEPT ![Len(trace)].hit = TRUE]
    /\ log' = <<>>
    /\ unread' = (unread \/ LeftUnread(a))
    /\ ResetLocals

\* A Scan that gives up on the parameter when a probe returns because its
\* baseline failed.
LeaveParameter(a, probe) ==
    /\ last' = a
    /\ findings' = findings
    /\ log' = <<>>
    /\ unread' = (unread \/ LeftUnread(a))
    /\ ResetLocals
    /\ IF probe = "AuthBypass" \/ (a.kind = "base" /\ a.failure \notin {"", "gate"})
       THEN /\ pc' = "param"
            /\ paramIdx' = paramIdx + 1
            /\ k' = 0
            /\ trace' = trace
       ELSE /\ pc' = StartPc(NextProbe(probe))
            /\ paramIdx' = paramIdx
            /\ k' = 1
            /\ trace' = Append(trace, NewEntry(NextProbe(probe)))

\* The probe returns (_, false): Scan calls the next probe, or, after the last
\* one, goes round ParamLoop.
Leave(a, probe) ==
    /\ last' = a
    /\ findings' = findings
    /\ log' = <<>>
    /\ unread' = (unread \/ LeftUnread(a))
    /\ ResetLocals
    /\ IF probe = "AuthBypass"
       THEN /\ pc' = "param"
            /\ paramIdx' = paramIdx + 1
            /\ k' = 0
            /\ trace' = trace
       ELSE /\ pc' = StartPc(NextProbe(probe))
            /\ paramIdx' = paramIdx
            /\ k' = 1
            /\ trace' = Append(trace, NewEntry(NextProbe(probe)))

\* A `return` where the payload loop has `continue`.
ContinueAsReturn(a, probe, n, om) == Leave(a, probe)

\* `continue` in a probe's payload loop of n payloads; om is originalParams as
\* the attempt left it.
Continue(a, probe, n, om) ==
    IF k < n
    THEN /\ Stay(a, LoopPc(probe), k + 1)
         /\ originalParams' = om
         /\ trueBody' = ""
         /\ resp' = ErrResp
         /\ UNCHANGED <<baselineDuration, originalBody, originalLength, failureBaselineBody>>
    ELSE Leave(a, probe)

\* scanner.VulnerabilityResult (Details and Remediation are fixed texts).
Finding(probe, url, name, payload, evidence) ==
    [VulnerabilityType |-> TypeOf(probe), URL |-> url, Parameter |-> name,
     Payload |-> payload, Evidence |-> evidence, Location |-> getParamLocation(req),
     Severity |-> "High", ScannerName |-> "Advanced SQL Injection Scanner"]

\* The original parameters with the probed one set to its first value followed by
\* the payload, built on the map mem.
Injected(mem, name, payload) == Set(mem, name, Get(mem, name) \o payload)

\* What the attempt leaves of the heap of the map om: the slices om points to.
Kept(om, mem) == [m |-> om.m, h |-> SubSeq(mem.h, 1, Len(om.h))]

(***************************************************************************)
(* Scan.                                                                   *)
(***************************************************************************)

InitScan ==
    /\ run = 1
    /\ prev = <<>>
    /\ pc = "start"
    /\ paramIdx = 0
    /\ k = 0
    /\ findings = <<>>
    /\ retErr = "unset"
    /\ baselineDuration = 0
    /\ originalBody = ""
    /\ originalLength = 0
    /\ failureBaselineBody = ""
    /\ trueBody = ""
    /\ originalParams = EmptyMem
    /\ resp = ErrResp
    /\ last = NoAttempt
    /\ trace = <<>>
    /\ log = <<>>
    /\ unread = FALSE
    /\ newParams = <<>>

Init ==
    /\ req \in Requests
    /\ server = AnyServer
    /\ other = NoFrame
    /\ diff = <<>>
    /\ InitScan

\* A findings slice that outlives the call.
FindingsKept == findings

\* var findings []scanner.VulnerabilityResult
FindingsAtStart == <<>>

\* Scan up to ParamLoop: the method and special-path filters.
ScanStart ==
    /\ pc = "start"
    /\ findings' = FindingsAtStart
    /\ IF Supported(req)
       THEN /\ pc' = "param"
            /\ paramIdx' = 1
            /\ retErr' = retErr
       ELSE /\ pc' = "done"
            /\ paramIdx' = paramIdx
            /\ retErr' = "nil"
    /\ UNCHANGED <<req, server, run, prev, k, locals, last, trace, log, unread, other, newParams, diff>>

\* The head of ParamLoop: return after the last name, skip an ignored name, else
\* call testErrorBased.
ParamLoop ==
    /\ pc = "param"
    /\ last' = NoAttempt
    /\ IF paramIdx > Len(req.ParamNames)
       THEN /\ pc' = "done"
            /\ retErr' = "nil"
            /\ UNCHANGED <<paramIdx, k, trace>>
       ELSE IF Ignored(req.ParamNames[paramIdx])
       THEN /\ paramIdx' = paramIdx + 1
            /\ UNCHANGED <<pc, retErr, k, trace>>
       ELSE /\ pc' = "Error"
            /\ k' = 1
            /\ trace' = Append(trace, NewEntry("Error"))
            /\ UNCHANGED <<paramIdx, retErr>>
    /\ UNCHANGED <<req, server, run, prev, findings, locals, log, unread, other, newParams, diff>>

paramName == req.ParamNames[paramIdx]

\* testParams of testErrorBased and testTimeBased: the original values with the
\* probed parameter set to its first value followed by the payload.
TestParams(vals, payload) == Deref(Injected(Alloc(vals, <<>>), paramName, payload))

\* A probe that takes a failed send for an empty page.
ErrorHitAnyway(r) == MatchesError(r.body) \/ r.err

\* testErrorBased's test of one response.
ErrorHit(r) == SendFailure(r) = "" /\ MatchesError(r.body)

\* sendRequest(req, client, log, testParams) of testErrorBased, w the request it
\* builds, and the test of the response.
ErrorSend(payload, testParams, w) ==
    IF w.err
    THEN Continue(Attempt("Error", "inject", w, "build", ErrResp, <<>>),
                  "Error", Len(SQLiPayloads), EmptyMem)
    ELSE \E r \in Allowed(ErrorInputs, w) :
            LET a == Attempt("Error", "inject", w, SendFailure(r), r, <<>>)
            IN  IF ErrorHit(r)
                THEN Hit(a, Finding("Error", buildRequestComponents(req, testParams).url,
                                    paramName, payload, FirstPattern(r.body)))
                ELSE Continue(a, "Error", Len(SQLiPayloads), EmptyMem)

\* The body of testErrorBased's payload loop, op what getOriginalParams returned.
ErrorPayload(payload, op) ==
    IF op.err
    THEN Continue(Attempt("Error", "inject", NoWire, "parse", ErrResp, <<>>),
                  "Error", Len(SQLiPayloads), EmptyMem)
    ELSE ErrorSend(payload, TestParams(op.vals, payload),
                   Wire(req, TestParams(op.vals, payload)))

\* One payload of testErrorBased.
ErrorAttempt ==
    /\ pc = "Error"
    /\ ErrorPayload(SQLiPayloads[k], getOriginalParams(req))
    /\ UNCHANGED <<req, server, run, prev, retErr, other, newParams, diff>>

\* The tolerance of testTimeBased, in seconds.
FourSeconds == 4

\* A threshold test that lets the boundary through.
TimeHitInclusive(testDuration, baseline) == testDuration >= baseline + FourSeconds

\* testDuration > baselineDuration+(4*time.Second)
TimeHit(testDuration, baseline) == testDuration > baseline + FourSeconds

\* measureRequestDuration from buildRequestComponents on, for the baseline.
TimeBaseSend(w) ==
    IF w.err
    THEN Leave(Attempt("Time", "base", w, "build", ErrResp, <<>>), "Time")
    ELSE \E r \in Allowed(TimeInputs, w) :
            LET a == Attempt("Time", "base", w, MeasureFailure(r), r, <<>>)
            IN  IF r.err
                THEN Leave(a, "Time")
                ELSE /\ Stay(a, "Time", 1)
                     /\ baselineDuration' = r.dur
                     /\ UNCHANGED <<originalBody, originalLength, failureBaselineBody,
                                    trueBody, originalParams, resp>>

\* measureRequestDuration(req, client, log, nil): params = getOriginalParams(req).
TimeBaseline(op) ==
    IF op.err
    THEN Leave(Attempt("Time", "base", NoWire, "parse", ErrResp, <<>>), "Time")
    ELSE TimeBaseSend(Wire(req, op.vals))

\* The baseline of testTimeBased.
TimeBase ==
    /\ pc = "TimeBase"
    /\ TimeBaseline(getOriginalParams(req))
    /\ UNCHANGED <<req, server, run, prev, retErr, other, newParams, diff>>

\* measureRequestDuration(req, client, log, testParams) and the threshold test.
TimeSend(payloadStr, testParams, w) ==
    IF w.err
    THEN Continue(Attempt("Time", "inject", w, "build", ErrResp, <<baselineDuration>>),
                  "Time", Len(TimeBasedSQLiTests), EmptyMem)
    ELSE \E r \in Allowed(TimeInputs, w) :
            LET a == Attempt("Time", "inject", w, MeasureFailure(r), r,
                             <<baselineDuration>>)
            IN  IF ~r.err /\ TimeHit(r.dur, baselineDuration)
                THEN Hit(a, Finding("Time", buildRequestComponents(req, testParams).url,
                                    paramName, payloadStr,
                                    "Response time: " \o DurationString(r.dur)))
                ELSE Continue(a, "Time", Len(TimeBasedSQLiTests), EmptyMem)

\* The body of testTimeBased's payload loop, op what getOriginalParams returned.
TimePayload(payloadStr, op) ==
    IF op.err
    THEN Continue(Attempt("Time", "inject", NoWire, "parse", ErrResp, <<baselineDuration>>),
                  "Time", Len(TimeBasedSQLiTests), EmptyMem)
    ELSE TimeSend(payloadStr, TestParams(op.vals, payloadStr),
                  Wire(req, TestParams(op.vals, payloadStr)))

\* One payload of testTimeBased.
TimeAttempt ==
    /\ pc = "Time"
    /\ TimePayload(TimePayloads[k], getOriginalParams(req))
    /\ UNCHANGED <<req, server, run, prev, retErr, other, newParams, diff>>

\* A decision that compares the FALSE response with the TRUE one only.
BooleanHitOneSided(original, true, false) == isDifferentResponse(true, false)

\* !isDifferentResponse(originalBody, trueBody) && isDifferentResponse(originalBody, falseBody)
BooleanHit(original, true, false) ==
    ~isDifferentResponse(original, true) /\ isDifferentResponse(original, false)

\* sendRequest(req, client, log, originalParams) of testBooleanBased, om the map
\* getOriginalParams returned and w the request built from it.
BoolBaseSend(om, w) ==
    IF w.err
    THEN Leave(Attempt("Boolean", "base", w, "build", ErrResp, <<>>), "Boolean")
    ELSE \E r \in Allowed(BooleanInputs, w) :
            LET a == Attempt("Boolean", "base", w, SendFailure(r), r, <<>>)
            IN  IF SendFailure(r) # ""
                THEN Leave(a, "Boolean")
                ELSE /\ Stay(a, "BoolTrue", 1)
                     /\ originalBody' = r.body
                     /\ originalParams' = om
                     /\ UNCHANGED <<baselineDuration, originalLength,
                                    failureBaselineBody, trueBody, resp>>

\* testBooleanBased up to its loop, op what getOriginalParams returned.
BoolBaseline(op) ==
    IF op.err
    THEN Leave(Attempt("Boolean", "base", NoWire, "parse", ErrResp, <<>>), "Boolean")
    ELSE BoolBaseSend(Alloc(op.vals, <<>>), Wire(req, Deref(Alloc(op.vals, <<>>))))

\* The baseline of testBooleanBased: the original parameters, sent unchanged.
BoolBase ==
    /\ pc = "BoolBase"
    /\ BoolBaseline(getOriginalParams(req))
    /\ UNCHANGED <<req, server, run, prev, retErr, other, newParams, diff>>

\* trueParams := copyParams(originalParams); trueParams.Set(paramName, ...)
trueParams ==
    Injected(copyParams(originalParams), paramName, BooleanSQLiTests[k].TruePayload)

\* falseParams := copyParams(originalParams); falseParams.Set(paramName, ...), on
\* the heap as the TRUE request left it.
falseParams(heap) ==
    Injected(copyParams([m |-> originalParams.m, h |-> heap]), paramName,
             BooleanSQLiTests[k].FalsePayload)

\* sendRequest(req, client, log, trueParams), tm the map sent and w the request.
BoolTrueSend(tm, w) ==
    IF w.err
    THEN Continue(Attempt("Boolean", "injectTrue", w, "build", ErrResp, <<originalBody>>),
                  "Boolean", Len(BooleanSQLiTests), Kept(originalParams, tm))
    ELSE \E r \in Allowed(BooleanInputs, w) :
            LET a == Attempt("Boolean", "injectTrue", w, SendFailure(r), r, <<originalBody>>)
            IN  IF SendFailure(r) # ""
                THEN Continue(a, "Boolean", Len(BooleanSQLiTests),
                              Kept(originalParams, tm))
                ELSE /\ Stay(a, "BoolFalse", k)
                     /\ trueBody' = r.body
                     /\ originalParams' = Kept(originalParams, tm)
                     /\ UNCHANGED <<baselineDuration, originalBody, originalLength,
                                    failureBaselineBody, resp>>

\* The TRUE request of one pair of testBooleanBased.
BoolTrue ==
    /\ pc = "BoolTrue"
    /\ BoolTrueSend(trueParams, Wire(req, Deref(trueParams)))
    /\ UNCHANGED <<req, server, run, prev, retErr, other, newParams, diff>>

\* sendRequest(req, client, log, falseParams) and the decision; tm and fm are the
\* two maps, w the request built from fm.
BoolFalseSend(tm, fm, w) ==
    IF w.err
    THEN Continue(Attempt("Boolean", "injectFalse", w, "build", ErrResp,
                          <<originalBody, trueBody>>),
                  "Boolean", Len(BooleanSQLiTests), Kept(originalParams, fm))
    ELSE \E r \in Allowed(BooleanInputs, w) :
            LET a == Attempt("Boolean", "injectFalse", w, SendFailure(r), r,
                             <<originalBody, trueBody>>)
            IN  IF SendFailure(r) = "" /\ BooleanHit(originalBody, trueBody, r.body)
                THEN Hit(a, Finding("Boolean",
                                    buildRequestComponents(
                                        req, Deref([m |-> tm.m, h |-> fm.h])).url,
                                    paramName, BooleanSQLiTests[k].TruePayload,
                                    "Response for TRUE condition was similar to original, while response for FALSE was different."))
                ELSE Continue(a, "Boolean", Len(BooleanSQLiTests),
                              Kept(originalParams, fm))

\* The FALSE request of the pair, fm its map.
BoolFalseBuilt(tm, fm) == BoolFalseSend(tm, fm, Wire(req, Deref(fm)))

\* The FALSE request of the pair, and the decision.
BoolFalse ==
    /\ pc = "BoolFalse"
    /\ BoolFalseBuilt(trueParams, falseParams(trueParams.h))
    /\ UNCHANGED <<req, server, run, prev, retErr, other, newParams, diff>>

\* A length test that lets the boundary of the ratio through.
ContentHitInclusive(modifiedLength, originalLength0) ==
    modifiedLength > originalLength0 /\ 10 * modifiedLength >= 11 * originalLength0

\* modifiedLength > originalLength && float64(modifiedLength) > float64(originalLength)*1.1
ContentHit(modifiedLength, originalLength0) ==
    modifiedLength > originalLength0 /\ 10 * modifiedLength > 11 * originalLength0

\* sendRequest(req, client, log, originalParams) of testContentBased.
ContentBaseSend(om, w) ==
    IF w.err
    THEN Leave(Attempt("Content", "base", w, "build", ErrResp, <<>>), "Content")
    ELSE \E r \in Allowed(ContentInputs, w) :
            LET a == Attempt("Content", "base", w, SendFailure(r), r, <<>>)
            IN  IF SendFailure(r) # ""
                THEN Leave(a, "Content")
                ELSE /\ Stay(a, "Content", 1)
                     /\ originalLength' = Len(r.body)
                     /\ originalParams' = om
                     /\ UNCHANGED <<baselineDuration, originalBody,
                                    failureBaselineBody, trueBody, resp>>

\* testContentBased up to its loop, op what getOriginalParams returned.
ContentBaseline(op) ==
    IF op.err
    THEN Leave(Attempt("Content", "base", NoWire, "parse", ErrResp, <<>>), "Content")
    ELSE ContentBaseSend(Alloc(op.vals, <<>>), Wire(req, Deref(Alloc(op.vals, <<>>))))

\* The baseline of testContentBased.
ContentBase ==
    /\ pc = "ContentBase"
    /\ ContentBaseline(getOriginalParams(req))
    /\ UNCHANGED <<req, server, run, prev, retErr, other, newParams, diff>>

\* sendRequest(req, client, log, testParams) of testContentBased and the length
\* test; mem is the map sent, w the request.
ContentSend(payload, mem, w) ==
    IF w.err
    THEN Continue(Attempt("Content", "inject", w, "build", ErrResp, <<originalLength>>),
                  "Content", Len(ContentPayloads), Kept(originalParams, mem))
    ELSE \E r \in Allowed(ContentInputs, w) :
            LET a == Attempt("Content", "inject", w, SendFailure(r), r,
                             <<originalLength>>)
            IN  IF SendFailure(r) = "" /\ ContentHit(Len(r.body), originalLength)
                THEN Hit(a, Finding("Content",
                                    buildRequestComponents(req, Deref(mem)).url,
                                    paramName, payload,
                                    "Original Length: " \o Itoa(originalLength)
                                      \o ", Injected Length: " \o Itoa(Len(r.body))))
                ELSE Continue(a, "Content", Len(ContentPayloads),
                              Kept(originalParams, mem))

\* The body of testContentBased's payload loop, mem the map it builds.
ContentPayload(payload, mem) == ContentSend(payload, mem, Wire(req, Deref(mem)))

\* One bypass payload of testContentBased.
ContentAttempt ==
    /\ pc = "Content"
    /\ ContentPayload(ContentPayloads[k],
                      Injected(copyParams(originalParams), paramName, ContentPayloads[k]))
    /\ UNCHANGED <<req, server, run, prev, retErr, other, newParams, diff>>

RECURSIVE SetEach(_, _, _)
SetEach(mem, keys, value) ==
    IF keys = <<>> THEN mem
    ELSE SetEach(Set(mem, Head(keys), value), Tail(keys), value)

\* for key := range params { if the lowercased key contains "password" { Set } }
SetPasswords(mem, value) ==
    SetEach(mem, SortStrings({key \in DOMAIN mem.m : Contains(ToLower(key), "password")}),
            value)

\* The parameters of a login attempt: the probed one set to user, every password
\* key set to pass.
Credentials(vals, user, pass) ==
    Deref(SetPasswords(Set(Alloc(vals, <<>>), paramName, user), pass))

\* A testAuthBypass without its name test.
LoginParamAny(name) == TRUE

\* The name test at the top of testAuthBypass.
LoginParam(name) == ToLower(name) \in loginUserParams

\* A differential path that looks for the keyword only.
PathBHitKeywordOnly(baseline, body) == HasKeyword(body, BodyKeywords)

\* The differential path: the body differs from the failed login and holds a
\* success keyword.
PathBHit(baseline, body) ==
    isDifferentResponse(baseline, body) /\ HasKeyword(body, BodyKeywords)

AuthFinding(payload, evidence) ==
    Finding("AuthBypass", req.URL, paramName, payload, evidence)

\* sendRequest(req, client, log, baseParams) of testAuthBypass.
AuthBaseSend(w) ==
    IF w.err
    THEN Leave(Attempt("AuthBypass", "base", w, "build", ErrResp, <<>>), "AuthBypass")
    ELSE \E r \in Allowed(AuthBaseInputs, w) :
            LET a == Attempt("AuthBypass", "base", w, SendFailure(r), r, <<>>)
            IN  IF SendFailure(r) # ""
                THEN Leave(a, "AuthBypass")
                ELSE /\ Stay(a, "Auth", 1)
                     /\ failureBaselineBody' = r.body
                     /\ UNCHANGED <<baselineDuration, originalBody, originalLength,
                                    trueBody, originalParams, resp>>

\* testAuthBypass up to its loop, op what getOriginalParams returned.
AuthBaseline(op) ==
    IF ~LoginParam(paramName)
    THEN Leave(Attempt("AuthBypass", "base", NoWire, "gate", ErrResp, <<>>), "AuthBypass")
    ELSE IF op.err
    THEN Leave(Attempt("AuthBypass", "base", NoWire, "parse", ErrResp, <<>>), "AuthBypass")
    ELSE AuthBaseSend(Wire(req, Credentials(op.vals, "dursgo-test-user",
                                            "dursgo-test-pass")))

\* The failure baseline of testAuthBypass, after the name test.
AuthBase ==
    /\ pc = "AuthBase"
    /\ AuthBaseline(getOriginalParams(req))
    /\ UNCHANGED <<req, server, run, prev, retErr, other, newParams, diff>>

\* The end of one bypass attempt once the redirect path has not fired: read the
\* body of response r and apply the differential path.
PathB(a, r, payload) ==
    IF ~r.readErr /\ PathBHit(failureBaselineBody, r.body)
    THEN Hit(a, AuthFinding(payload,
                            "Found keyword: '" \o FirstKeyword(r.body, BodyKeywords)
                              \o "' in a modified response."))
    ELSE Continue(a, "AuthBypass", Len(AuthPayloads), EmptyMem)

\* How a bypass attempt fails on response r: Do returned an error, or the body of
\* a response that is no redirect cannot be read.
AuthFailure(r) ==
    IF r.err THEN "transport"
    ELSE IF ~IsRedirect(r.status) /\ r.readErr THEN "read" ELSE ""

\* noRedirectClient.Do(httpReq) and what follows it, w the request.
AuthSend(payload, w) ==
    IF w.err
    THEN Continue(Attempt("AuthBypass", "inject", w, "build", ErrResp,
                          <<failureBaselineBody>>),
                  "AuthBypass", Len(AuthPayloads), EmptyMem)
    ELSE \E r \in Allowed(AuthInputs, w) :
            LET a == Attempt("AuthBypass", "inject", w, AuthFailure(r), r,
                             <<failureBaselineBody>>)
            IN  IF r.err
                THEN Continue(a, "AuthBypass", Len(AuthPayloads), EmptyMem)
                ELSE IF IsRedirect(r.status)
                THEN IF r.locErr \/ Len(r.cookies) = 0
                     THEN Continue(a, "AuthBypass", Len(AuthPayloads), EmptyMem)
                     ELSE /\ Stay(a, "AuthFollow", k)
                          /\ resp' = r
                          /\ UNCHANGED <<baselineDuration, originalBody, originalLength,
                                         failureBaselineBody, trueBody, originalParams>>
                ELSE PathB(a, r, payload)

\* The body of testAuthBypass's payload loop, op what getOriginalParams returned.
AuthPayload(payload, op) ==
    IF op.err
    THEN Continue(Attempt("AuthBypass", "inject", NoWire, "parse", ErrResp,
                          <<failureBaselineBody>>),
                  "AuthBypass", Len(AuthPayloads), EmptyMem)
    ELSE AuthSend(payload, Wire(req, Credentials(op.vals, payload, "password")))

\* One bypass payload of testAuthBypass, sent through the redirect-inhibited client.
AuthAttempt ==
    /\ pc = "Auth"
    /\ AuthPayload(AuthPayloads[k], getOriginalParams(req))
    /\ UNCHANGED <<req, server, run, prev, retErr, other, newParams, diff>>

\* client.GetWithCookies(location, cookies), w the request, and the rest of the
\* attempt.
FollowSend(payload, w) ==
    \E f \in Allowed(FollowInputs, w) :
        LET a == Attempt("AuthBypass", "follow", w,
                         IF f.err THEN "transport" ELSE "", f,
                         <<failureBaselineBody, resp>>)
        IN  IF f.err
            THEN Continue(a, "AuthBypass", Len(AuthPayloads), EmptyMem)
            ELSE IF PathAHit(f.body)
            THEN Hit(a, AuthFinding(payload,
                                    "Redirect Location: " \o resp.location
                                      \o ", Session Cookie: " \o resp.cookies[1]))
            ELSE PathB(a, resp, payload)

\* The follow-up GET to the redirect's Location with the cookies it set, then the
\* rest of the attempt.
AuthFollow ==
    /\ pc = "AuthFollow"
    /\ FollowSend(AuthPayloads[k], FollowWire(resp.location, resp.cookies))
    /\ UNCHANGED <<req, server, run, prev, retErr, other, newParams, diff>>

Next ==
    \/ ScanStart
    \/ ParamLoop
    \/ ErrorAttempt
    \/ TimeBase
    \/ TimeAttempt
    \/ BoolBase
    \/ BoolTrue
    \/ BoolFalse
    \/ ContentBase
    \/ ContentAttempt
    \/ AuthBase
    \/ AuthAttempt
    \/ AuthFollow

Spec == Init /\ [][Next]_vars

(***************************************************************************)
(* Two Scan calls on one request against a deterministic server.           *)
(***************************************************************************)

\* A deterministic server: the response, its duration included, is a function of
\* the request sent.
Servers == [0..(DetClasses - 1) -> DetResponses]

\* The requests scanned twice: the first URL, with the first form when posted,
\* and at least one parameter, none of them ignored.
DetRequests ==
    {r \in Requests :
        /\ r.Method \in {"GET", "POST"}
        /\ r.URL = "http://h/a?id=1&id=2&user=x&password=y"
        /\ r.FormPostData \in {"", "id=1&user=x&password=y"}
        /\ r.ParamNames # <<>>
        /\ \A i \in 1..Len(r.ParamNames) : r.ParamNames[i] \in {"id", "user"}}

InitDet ==
    /\ req \in DetRequests
    /\ server \in Servers
    /\ other = NoFrame
    /\ diff = <<>>
    /\ InitScan

\* The caller keeps what the first call returned and calls Scan again with the
\* same request: the second call starts like the first.
Rescan ==
    /\ pc = "done"
    /\ run = 1
    /\ server # AnyServer
    /\ run' = 2
    /\ prev' = findings
    /\ pc' = "start"
    /\ paramIdx' = 0
    /\ k' = 0
    /\ retErr' = "unset"
    /\ last' = NoAttempt
    /\ trace' = <<>>
    /\ log' = <<>>
    /\ unread' = FALSE
    /\ UNCHANGED <<req, server, findings, locals, other, newParams, diff>>

NextDet ==
    \/ Next
    \/ Rescan

SpecDet == InitDet /\ [][NextDet]_vars

(***************************************************************************)
(* Two Scan calls on different requests, run concurrently and then one     *)
(* after the other, against one deterministic server.                      *)
(***************************************************************************)

\* The three requests the concurrent calls are taken from.
ParCalls ==
    <<[Method |-> "GET", URL |-> "http://h/a?id=1&id=2&user=x&password=y",
       FormPostData |-> "", ParamNames |-> <<"user">>],
      [Method |-> "POST", URL |-> "http://h/a?id=1&id=2&user=x&password=y",
       FormPostData |-> "id=1&user=x&password=y", ParamNames |-> <<"id">>],
      [Method |-> "GET", URL |-> "http://h/a?id=1&id=2&user=x&password=y",
       FormPostData |-> "", ParamNames |-> <<"id", "user">>]>>

\* What the server of the concurrent calls answers with.
ParResponses ==
    {OkPage(PageA), OkPage(PageSQL), Response(300, PageA, 0, FALSE, <<"SID">>, FALSE)}

ParServers == [0..(DetClasses - 1) -> ParResponses]

\* The frame of a call that has not started: Scan's arguments and nothing else.
StartFrame(id, r) ==
    [id |-> id, mixed |-> FALSE, req |-> r, pc |-> "start", paramIdx |-> 0, k |-> 0,
     findings |-> <<>>, retErr |-> "unset", baselineDuration |-> 0,
     originalBody |-> "", originalLength |-> 0, failureBaselineBody |-> "",
     trueBody |-> "", originalParams |-> EmptyMem, resp |-> ErrResp,
     last |-> NoAttempt, trace |-> <<>>, log |-> <<>>, unread |-> FALSE]

\* The frame of the running call as it is suspended: its arguments, its place
\* and its locals.  mixed: the two calls have been inside Scan at the same time.
Frame(id, mixed) ==
    [id |-> id, mixed |-> mixed, req |-> req, pc |-> pc, paramIdx |-> paramIdx, k |-> k,
     findings |-> findings, retErr |-> retErr, baselineDuration |-> baselineDuration,
     originalBody |-> originalBody, originalLength |-> originalLength,
     failureBaselineBody |-> failureBaselineBody, trueBody |-> trueBody,
     originalParams |-> originalParams, resp |-> resp,
     last |-> last, trace |-> trace, log |-> log, unread |-> unread]

\* A findings slice declared at package level: the resumed call sees what the
\* call that ran last left in it.
FindingsOfPackage(frame) == findings

\* The findings slice a resumed call works on: its own local.
FindingsOf(frame) == frame.findings

InPar ==
    /\ \E i, j \in 1..Len(ParCalls) :
          /\ i < j
          /\ req = ParCalls[i]
          /\ other = StartFrame(2, ParCalls[j])
    /\ server \in ParServers
    /\ diff = <<>>
    /\ InitScan

\* The scheduler suspends the running call and resumes the other one: while the
\* calls run concurrently, at any step; while they run serially, when the
\* running call has returned.
Switch ==
    /\ other # NoFrame
    /\ other.pc # "done"
    /\ run = 2 => pc = "done"
    /\ other' = Frame(3 - other.id,
                      other.mixed \/ (pc \notin {"start", "done"} /\ other.pc # "start"))
    /\ req' = other.req
    /\ pc' = other.pc
    /\ paramIdx' = other.paramIdx
    /\ k' = other.k
    /\ findings' = FindingsOf(other)
    /\ retErr' = other.retErr
    /\ baselineDuration' = other.baselineDuration
    /\ originalBody' = other.originalBody
    /\ originalLength' = other.originalLength
    /\ failureBaselineBody' = other.failureBaselineBody
    /\ trueBody' = other.trueBody
    /\ originalParams' = other.originalParams
    /\ resp' = other.resp
    /\ last' = other.last
    /\ trace' = other.trace
    /\ log' = other.log
    /\ unread' = other.unread
    /\ UNCHANGED <<server, run, prev, newParams, diff>>

\* The findings of the two calls, the first call's first.
Results ==
    IF other.id = 2 THEN <<findings, other.findings>> ELSE <<other.findings, findings>>

\* Both concurrent calls have returned: the caller keeps their findings and
\* makes the same two calls again, one after the other.
Serially ==
    /\ other # NoFrame
    /\ run = 1
    /\ pc = "done"
    /\ other.pc = "done"
    /\ run' = 2
    /\ prev' = Results
    /\ other' = [StartFrame(other.id, other.req) EXCEPT !.mixed = other.mixed]
    /\ pc' = "start"
    /\ paramIdx' = 0
    /\ k' = 0
    /\ retErr' = "unset"
    /\ last' = NoAttempt
    /\ trace' = <<>>
    /\ log' = <<>>
    /\ unread' = FALSE
    /\ UNCHANGED <<req, server, findings, locals, newParams, diff>>

NextPar ==
    \/ Next
    \/ Switch
    \/ Serially

SpecPar == InPar /\ [][NextPar]_vars

(***************************************************************************)
(* copyParams on its own: a map is copied and the copy is written to.      *)
(***************************************************************************)

\* How many writes to the copy are followed.
MaxEdits == 2

\* A request whose key id has three values, one of them escaped: its slice has
\* room for a fourth.
ThreeValues ==
    [Method |-> "GET", URL |-> "HTTP://h/a?id=1&id=%32&id=3#top", FormPostData |-> "",
     ParamNames |-> <<>>]

\* The requests whose values are copied.
CopyRequests ==
    {r \in Requests : r.ParamNames = <<>> /\ r.Method \in {"GET", "POST"}}
      \cup {ThreeValues}

InitCopy ==
    /\ req \in CopyRequests
    /\ server = AnyServer
    /\ other = NoFrame
    /\ diff = <<>>
    /\ InitScan

\* The copy as a url.Values in the heap it shares with the original.
Copy == [m |-> newParams, h |-> originalParams.h]

\* The two maps after a write that turned the copy into mem.
Written(mem) ==
    /\ newParams' = mem.m
    /\ originalParams' = [m |-> originalParams.m, h |-> mem.h]
    /\ k' = k + 1
    /\ UNCHANGED <<req, server, run, prev, pc, paramIdx, findings, retErr,
                   baselineDuration, originalBody, originalLength, failureBaselineBody,
                   trueBody, resp, last, trace, log, unread, other, diff>>

\* original, err := getOriginalParams(req); newParams := copyParams(original)
CopyParams ==
    /\ pc = "start"
    /\ ~getOriginalParams(req).err
    /\ pc' = "copied"
    /\ originalParams' = Alloc(getOriginalParams(req).vals, <<>>)
    /\ newParams' = copyParams(Alloc(getOriginalParams(req).vals, <<>>)).m
    /\ UNCHANGED <<req, server, run, prev, paramIdx, k, findings, retErr,
                   baselineDuration, originalBody, originalLength, failureBaselineBody,
                   trueBody, resp, last, trace, log, unread, other, diff>>

\* newParams.Set(key, value): the key is added or its slice replaced.
CopySet ==
    /\ pc = "copied"
    /\ k < MaxEdits
    /\ \E key \in DOMAIN newParams \cup {"new"} : Written(Set(Copy, key, "v"))

\* newParams[key] = append(newParams[key], value): the element goes into the
\* array the original shares when the slice has room, into a new array otherwise.
CopyAppend ==
    /\ pc = "copied"
    /\ k < MaxEdits
    /\ \E key \in DOMAIN newParams :
          Written([m |-> [newParams EXCEPT ![key] = append(Copy.h, newParams[key], "v").s],
                   h |-> append(Copy.h, newParams[key], "v").h])

\* newParams[key][i] = value: an element of the slice is overwritten in place.
CopyStore ==
    /\ pc = "copied"
    /\ k < MaxEdits
    /\ \E key \in DOMAIN newParams :
          \E i \in 1..newParams[key].len :
              Written([m |-> newParams,
                       h |-> [Copy.h EXCEPT ![newParams[key].at][i] = "v"]])

NextCopy ==
    \/ CopyParams
    \/ CopySet
    \/ CopyAppend
    \/ CopyStore

SpecCopy == InitCopy /\ [][NextCopy]_vars

(***************************************************************************)
(* isDifferentResponse on its own, called on two bodies.                   *)
(***************************************************************************)

\* The page cut by one character, and that with one character changed.
PageCut == "<p>item 1: foun</p>"

PageCut1 == "<p>item 2: foun</p>"

\* The bodies compared: those of the scans and the two pages of 19 bytes.
DiffInputs == Bodies \cup {PageCut, PageCut1}

InitDiff ==
    /\ req \in {r \in CopyRequests : r.Method = "GET" /\ r.URL = "http://h/register?id=1"}
    /\ server = AnyServer
    /\ other = NoFrame
    /\ diff \in [original : DiffInputs, modified : DiffInputs, results : {<<>>}]
    /\ InitScan

\* isDifferentResponse(original, modified) and isDifferentResponse(modified, original)
Compare ==
    /\ diff # <<>>
    /\ diff.results = <<>>
    /\ diff' = [diff EXCEPT !.results =
                    <<isDifferentResponse(diff.original, diff.modified),
                      isDifferentResponse(diff.modified, diff.original)>>]
    /\ UNCHANGED <<req, server, run, prev, pc, paramIdx, k, findings, retErr, locals,
                   last, trace, log, unread, other, newParams>>

NextDiff == Compare

SpecDiff == InitDiff /\ [][NextDiff]_vars

(***************************************************************************)
(* The properties checked.                                                 *)
(***************************************************************************)

\* The probes in their priority order, and the type each one reports.
PriorityOrder == <<"Error", "Time", "Boolean", "Content", "AuthBypass">>

ReportedType ==
    [p \in {"Error", "Time", "Boolean", "Content", "AuthBypass"} |->
        CASE p = "Error"      -> "SQL Injection (Error-Based)"
          [] p = "Time"       -> "SQL Injection (Time-Based)"
          [] p = "Boolean"    -> "SQL Injection (Boolean-Based)"
          [] p = "Content"    -> "SQL Injection (Content-Based)"
          [] p = "AuthBypass" -> "SQL Injection (Auth Bypass)"]

\* The probe a position of Scan belongs to.
ProbeAt(p) ==
    CASE p = "Error"                               -> "Error"
      [] p \in {"TimeBase", "Time"}                -> "Time"
      [] p \in {"BoolBase", "BoolTrue", "BoolFalse"} -> "Boolean"
      [] p \in {"ContentBase", "Content"}          -> "Content"
      [] p \in {"AuthBase", "Auth", "AuthFollow"}  -> "AuthBypass"

InProbe == pc \notin {"start", "param", "done"}

\* The probes called for the parameter at position i, in the order of the calls.
EntriesOf(i) == SelectSeq(trace, LAMBDA e : e.idx = i)

\* The probe calls that reported a hit.
HitEntries == SelectSeq(trace, LAMBDA e : e.hit)

LastFinding == findings[Len(findings)]

\* C1: for every parameter the probes are called in the order Error, Time,
\* Boolean, Content, AuthBypass; only the last probe called for a parameter can
\* have hit, so no probe runs (and none sends a request) after a hit; requests
\* are sent by the probe called last only; and the findings are, in order, the
\* hits, each with the type of the probe that hit.
C1_ProbeOrder ==
    /\ \A i \in 1..Len(req.ParamNames) :
          /\ Len(EntriesOf(i)) <= Len(PriorityOrder)
          /\ \A j \in 1..Len(EntriesOf(i)) :
                /\ EntriesOf(i)[j].probe = PriorityOrder[j]
                /\ j < Len(EntriesOf(i)) => ~EntriesOf(i)[j].hit
    /\ InProbe =>
          /\ trace # <<>>
          /\ trace[Len(trace)] = [idx |-> paramIdx, probe |-> ProbeAt(pc), hit |-> FALSE]
          /\ log # <<>> => last.probe = ProbeAt(pc) /\ last.idx = paramIdx
    /\ ~InProbe => log = <<>>
    /\ Len(HitEntries) = Len(findings)
    /\ \A n \in 1..Len(findings) :
          /\ findings[n].VulnerabilityType = ReportedType[HitEntries[n].probe]
          /\ findings[n].Parameter = req.ParamNames[HitEntries[n].idx]

\* A scan is over in which the first two probes found nothing for a parameter
\* and the boolean probe hit.
C1_Witness ==
    /\ pc = "done"
    /\ Len(findings) = 1
    /\ findings[1].VulnerabilityType = "SQL Injection (Boolean-Based)"
    /\ Len(trace) = 3

\* C2: no two findings of one Scan call name the same parameter.
C2_OneFindingPerParameter ==
    \A i, j \in 1..Len(findings) :
        i # j => findings[i].Parameter # findings[j].Parameter

IgnoredNames == {"csrf", "token", "_token", "csrf_token", "_csrf_token"}

IsIgnoredName(name) == ToLower(name) \in IgnoredNames

\* C3: a parameter whose lowercased name is csrf, token, _token, csrf_token or
\* _csrf_token gets no finding, no probe is called for it and no attempt is made
\* for it; and when a supported scan is over, the first probe has been called
\* for every other parameter.
C3_IgnoredNeverProbed ==
    /\ \A n \in 1..Len(findings) : ~IsIgnoredName(findings[n].Parameter)
    /\ \A j \in 1..Len(trace) : ~IsIgnoredName(req.ParamNames[trace[j].idx])
    /\ last.probe # "" => ~IsIgnoredName(req.ParamNames[last.idx])
    /\ InProbe => ~IsIgnoredName(req.ParamNames[paramIdx])
    /\ (pc = "done" /\ Supported(req)) =>
          \A i \in 1..Len(req.ParamNames) :
              ~IsIgnoredName(req.ParamNames[i]) =>
                  \E j \in 1..Len(trace) : trace[j].idx = i /\ trace[j].probe = "Error"

\* A scan of <<"Token", "id">> is over: nothing was done for Token, and id, which
\* follows it, was probed and has a finding.
C3_Witness ==
    /\ pc = "done"
    /\ req.ParamNames = <<"Token", "id">>
    /\ Len(findings) = 1
    /\ findings[1].Parameter = "id"
    /\ \A j \in 1..Len(trace) : trace[j].idx = 2

Unsupported(r) ==
    \/ r.Method \notin {"GET", "POST"}
    \/ IndexOf(r.URL, "/comment") # 0
    \/ IndexOf(r.URL, "/register") # 0

\* C4: when the method is neither GET nor POST, or the URL contains /comment or
\* /register, Scan calls no probe, makes no attempt, sends no request, and
\* returns empty findings and a nil error.
C4_UnsupportedInput ==
    Unsupported(req) =>
        /\ pc \in {"start", "done"}
        /\ trace = <<>>
        /\ log = <<>>
        /\ last = NoAttempt
        /\ findings = <<>>
        /\ pc = "done" => retErr = "nil"

\* Scan has returned for a GET of a /register URL with two parameters to probe.
C4_Witness ==
    /\ pc = "done"
    /\ retErr = "nil"
    /\ req.Method = "GET"
    /\ req.URL = "http://h/register?id=1"
    /\ req.ParamNames = <<"id", "user">>

RECURSIVE IsSubsequence(_, _)
IsSubsequence(s, t) ==
    IF s = <<>> THEN TRUE
    ELSE IF t = <<>> THEN FALSE
    ELSE IF Head(s) = Head(t) THEN IsSubsequence(Tail(s), Tail(t))
    ELSE IsSubsequence(s, Tail(t))

FoundParameters == [n \in 1..Len(findings) |-> findings[n].Parameter]

NonIgnoredNames == SelectSeq(req.ParamNames, LAMBDA n : ~IsIgnoredName(n))

\* C5: the parameters of the findings, in the order of the findings, are a
\* subsequence of the non-ignored entries of paramNames; with no paramNames
\* there are no findings.
C5_DeclaredOrder ==
    /\ IsSubsequence(FoundParameters, NonIgnoredNames)
    /\ req.ParamNames = <<>> => findings = <<>>

\* A scan of <<"id", "user">> is over with a finding for each, id's first.
C5_Witness ==
    /\ pc = "done"
    /\ req.ParamNames = <<"id", "user">>
    /\ FoundParameters = <<"id", "user">>

\* The values getOriginalParams gives for the request.
OriginalValues == getOriginalParams(req).vals

FirstValue(vals, key) ==
    IF key \in DOMAIN vals /\ vals[key] # <<>> THEN vals[key][1] ELSE ""

\* The payload of attempt a.
PayloadOf(a) ==
    CASE a.probe = "Error"      -> SQLiPayloads[a.k]
      [] a.probe = "Time"       -> Replace(TimeBasedSQLiTests[a.k].PayloadTemplate,
                                           "{DELAY}", "5")
      [] a.probe = "Boolean"    -> IF a.kind = "injectTrue"
                                   THEN BooleanSQLiTests[a.k].TruePayload
                                   ELSE BooleanSQLiTests[a.k].FalsePayload
      [] a.probe = "Content"    -> ContentPayloads[a.k]
      [] a.probe = "AuthBypass" -> AuthPayloads[a.k]

\* What attempt a must send, written from the original values alone.
ExpectedValues(a, vals, name) ==
    [key \in DOMAIN vals \cup {name} |->
        IF key = name
        THEN IF a.probe = "AuthBypass" THEN <<PayloadOf(a)>>
             ELSE <<FirstValue(vals, name) \o PayloadOf(a)>>
        ELSE IF a.probe = "AuthBypass" /\ IndexOf(MapChars(LowerCh, key), "password") # 0
        THEN <<"password">>
        ELSE vals[key]]

\* C6: the request of every injected attempt carries the original values with
\* the probed parameter set to its original (first) value followed by the
\* payload, or, in the auth-bypass probe, to the payload itself with the
\* password-named parameters set to "password"; and the original mapping the
\* boolean and content probes hold still has the original values.
C6_BuiltFromOriginal ==
    /\ (last.kind \in {"inject", "injectTrue", "injectFalse"} /\ last.failure # "parse") =>
          last.wire = Wire(req, ExpectedValues(last, OriginalValues, req.ParamNames[last.idx]))
    /\ pc \in {"BoolTrue", "BoolFalse", "Content"} =>
          Deref(originalParams) = OriginalValues

\* The FALSE request of the second boolean pair of a POST has been answered: the
\* fourth request built from the one original mapping.
C6_Witness ==
    /\ last.probe = "Boolean"
    /\ last.kind = "injectFalse"
    /\ last.k = 2
    /\ last.failure = ""
    /\ req.Method = "POST"
    /\ last.base = <<PageA, PageA1>>

\* C7: Scan returns a nil error whenever it returns, and an attempt that failed
\* (the values do not parse, the request cannot be built, the exchange or the
\* reading of the body fails) leaves the findings as they were.
C7_ErrorsAbsorbed ==
    [][/\ pc' = "done" => retErr' = "nil"
       /\ retErr' \in {"unset", "nil"}
       /\ last'.failure # "" => findings' = findings]_vars

\* The auth-bypass baseline of the last parameter failed in transport, after a
\* finding for an earlier parameter: the finding is all there is.
C7_Witness ==
    /\ last.probe = "AuthBypass"
    /\ last.kind = "base"
    /\ last.failure = "transport"
    /\ paramIdx = 3
    /\ Len(findings) = 1

\* C8: once the FALSE request of a pair is answered, the boolean probe hits iff
\* the TRUE body is not different from the baseline body and the FALSE body is;
\* the finding then reports the pair's TRUE payload; no other attempt of the
\* probe hits; and the pairs are tried in catalog order.
C8_BooleanDecision ==
    /\ (last.kind = "injectFalse" /\ last.failure = "") =>
          /\ (pc = "param") <=>
                /\ ~isDifferentResponse(last.base[1], last.base[2])
                /\ isDifferentResponse(last.base[1], last.resp.body)
          /\ pc = "param" =>
                /\ LastFinding.VulnerabilityType = "SQL Injection (Boolean-Based)"
                /\ LastFinding.Payload = BooleanSQLiTests[last.k].TruePayload
    /\ (last.probe = "Boolean" /\ (last.kind # "injectFalse" \/ last.failure # "")) =>
          pc # "param"
    /\ pc \in {"BoolTrue", "BoolFalse"} =>
          /\ log[1] = [kind |-> "base", k |-> 1]
          /\ \A i \in 2..Len(log) : log[i].kind \in {"injectTrue", "injectFalse"}
          /\ \A i, j \in 2..Len(log) : i < j => log[i].k <= log[j].k

\* The second pair hit after the first pair was answered and did not.
C8_Witness ==
    /\ last.kind = "injectFalse"
    /\ last.failure = ""
    /\ last.k = 2
    /\ pc = "param"
    /\ LastFinding.Payload = BooleanSQLiTests[2].TruePayload

\* C9: the time probe sends its baseline first and once, with the original
\* values; every later request of the probe is an injected one, decided against
\* that baseline; an answered injected request hits iff its duration is more
\* than the baseline plus 4 seconds; a failed one does not hit.
C9_TimeDecision ==
    /\ (last.probe = "Time" /\ last.kind = "base" /\ last.failure # "parse") =>
          last.wire = Wire(req, OriginalValues)
    /\ (last.probe = "Time" /\ last.kind = "base" /\ last.failure = "") =>
          pc = "Time" /\ baselineDuration = last.resp.dur
    /\ pc = "Time" =>
          /\ log[1] = [kind |-> "base", k |-> 1]
          /\ \A i \in 2..Len(log) : log[i].kind = "inject"
          /\ last.kind = "inject" => last.base = <<baselineDuration>>
    /\ (last.probe = "Time" /\ last.kind = "inject" /\ last.failure = "") =>
          /\ (pc = "param") <=> (last.resp.dur > last.base[1] + 4)
          /\ pc = "param" =>
                LastFinding.VulnerabilityType = "SQL Injection (Time-Based)"
    /\ (last.probe = "Time" /\ (last.kind = "base" \/ last.failure # "")) => pc # "param"

\* An injected request took exactly the baseline plus 4 seconds: no hit.
C9_Witness ==
    /\ last.probe = "Time"
    /\ last.kind = "inject"
    /\ last.failure = ""
    /\ last.base = <<1>>
    /\ last.resp.dur = 5
    /\ pc # "param"

\* C10: the second Scan call on the same request against the same deterministic
\* server returns the findings the first call returned.
C10_SameFindings == (run = 2 /\ pc = "done") => findings = prev

\* The second call has returned, with two findings.
C10_Witness ==
    /\ run = 2
    /\ pc = "done"
    /\ Len(findings) = 2
    /\ Len(prev) = 2

\* C12: whenever a request is sent, the body of every response received earlier
\* in the Scan has been read to the end.
C12_BodiesReadBeforeSend == Issued(last) => ~last.unread

\* The probe called last reported a hit.
LastProbeHit == trace # <<>> /\ trace[Len(trace)].hit

SessionWords == <<"logout", "my account", "log out", "sign out">>

SuccessWords == <<"logout", "my account", "log out", "sign out", "welcome">>

\* Whether the lowercased body contains one of the words.
Mentions(body, words) == \E i \in 1..Len(words) : Contains(ToLower(body), words[i])

\* The response the bypass request of attempt a got (the follow-up attempt keeps
\* it next to the baseline).
BypassResponse(a) == IF a.kind = "follow" THEN a.base[2] ELSE a.resp

\* Attempt a of the auth-bypass probe is over.
BypassOver(a) ==
    /\ a.probe = "AuthBypass"
    /\ a.kind \in {"inject", "follow"}
    /\ pc # "AuthFollow"

\* The follow-up GET of attempt a was answered with a page that shows a session.
SessionVerified(a) ==
    a.kind = "follow" /\ ~a.resp.err /\ Mentions(a.resp.body, SessionWords)

\* Attempt a was given up on the redirect path: the redirect has no usable
\* Location, set no cookie, or its follow-up GET failed.
GivenUp(a) ==
    \/ /\ a.kind = "inject"
       /\ ~a.resp.err
       /\ a.resp.status >= 300 /\ a.resp.status < 400
       /\ a.resp.locErr \/ a.resp.cookies = <<>>
    \/ a.kind = "follow" /\ a.resp.err

\* The differential test on the body of response r against the baseline.
Differential(baseline, r) ==
    /\ ~r.readErr
    /\ isDifferentResponse(baseline, r.body)
    /\ Mentions(r.body, SuccessWords)

\* C13 as stated: whenever the bypass request was answered and the redirect
\* path did not hit, the attempt hits iff the body of that response differs from
\* the failure baseline and holds a success keyword.
C13_BothPathsAlways ==
    (BypassOver(last) /\ last.failure \notin {"parse", "build"}
       /\ ~BypassResponse(last).err /\ ~SessionVerified(last)) =>
        (LastProbeHit <=>
            /\ isDifferentResponse(last.base[1], BypassResponse(last).body)
            /\ Mentions(BypassResponse(last).body, SuccessWords))

\* C13, amended: an attempt given up on the redirect path does not hit; when the
\* follow-up page shows a session the attempt hits with the redirect as
\* evidence; in every other attempt whose request was answered, the attempt hits
\* iff the body can be read, differs from the failure baseline and holds a
\* success keyword, and the keyword is the evidence.
C13_BothPaths ==
    BypassOver(last) =>
        /\ GivenUp(last) => ~LastProbeHit
        /\ SessionVerified(last) =>
              /\ LastProbeHit
              /\ SubSeq(LastFinding.Evidence, 1, 18) = "Redirect Location:"
        /\ (last.failure \notin {"parse", "build"} /\ ~BypassResponse(last).err
              /\ ~GivenUp(last) /\ ~SessionVerified(last)) =>
              /\ LastProbeHit <=> Differential(last.base[1], BypassResponse(last))
              /\ LastProbeHit =>
                    /\ SubSeq(LastFinding.Evidence, 1, 14) = "Found keyword:"
                    /\ LastFinding.Payload = AuthPayloads[last.k]

\* A redirect was followed, the page it led to shows no session, and the
\* redirect's own body, a welcome page unlike the baseline, made the hit.
C13_Witness ==
    /\ last.kind = "follow"
    /\ ~last.resp.err
    /\ last.base[1] = PageA
    /\ last.base[2].body = PageWelcome
    /\ LastProbeHit
    /\ LastFinding.Evidence = "Found keyword: 'welcome' in a modified response."

\* The last finding came from the redirect path.
RedirectHit ==
    /\ last.probe = "AuthBypass"
    /\ LastProbeHit
    /\ SubSeq(LastFinding.Evidence, 1, 18) = "Redirect Location:"

\* C14: a follow-up GET is sent only for a response with a status from 300 to
\* 399, a Location that parses and at least one cookie, to that Location and
\* with exactly those cookies, so never when the redirect set no cookie; a hit
\* through the redirect path needs the follow-up answered with a body whose
\* lowercased form contains logout, my account, log out or sign out; and its
\* finding reports the URL of the request, the bypass payload, the Location and
\* the first cookie.
C14_RedirectPath ==
    /\ (last.kind = "follow" \/ pc = "AuthFollow") =>
          LET r == IF pc = "AuthFollow" THEN resp ELSE last.base[2]
          IN  /\ r.status >= 300 /\ r.status < 400
              /\ ~r.locErr
              /\ r.cookies # <<>>
              /\ last.kind = "follow" =>
                    last.wire = [err |-> FALSE, method |-> "GET", url |-> r.location,
                                 body |-> "", cookies |-> r.cookies]
    /\ RedirectHit =>
          /\ last.kind = "follow"
          /\ ~last.resp.err
          /\ Mentions(last.resp.body, SessionWords)
          /\ LastFinding.VulnerabilityType = "SQL Injection (Auth Bypass)"
          /\ LastFinding.URL = req.URL
          /\ LastFinding.Parameter = req.ParamNames[last.idx]
          /\ LastFinding.Payload = AuthPayloads[last.k]
          /\ LastFinding.Evidence =
                "Redirect Location: " \o last.base[2].location
                  \o ", Session Cookie: " \o last.base[2].cookies[1]

\* The second payload was answered with a 399 that set a cookie, and the page
\* behind its Location has a log-out link: a hit through the redirect path.
C14_Witness ==
    /\ RedirectHit
    /\ last.k = 2
    /\ last.base[2].status = 399
    /\ last.resp.body = PageLogout

LoginNames == {"username", "user", "email", "login"}

IsLoginName(name) == ToLower(name) \in LoginNames

\* C15: for a parameter whose lowercased name is not username, user, email or
\* login the auth-bypass probe returns at its name test: it builds and sends
\* nothing, neither baseline nor bypass request; the probe's loop is only ever
\* reached for a login name; and every auth-bypass finding is for a login name.
C15_AuthGate ==
    /\ \A n \in 1..Len(findings) :
          findings[n].VulnerabilityType = "SQL Injection (Auth Bypass)" =>
              IsLoginName(findings[n].Parameter)
    /\ last.probe = "AuthBypass" =>
          IF IsLoginName(req.ParamNames[last.idx])
          THEN last.failure # "gate"
          ELSE /\ last.failure = "gate"
               /\ last.kind = "base"
               /\ last.wire = NoWire
               /\ ~Issued(last)
               /\ ~LastProbeHit
    /\ pc \in {"Auth", "AuthFollow"} => IsLoginName(req.ParamNames[paramIdx])
    /\ (pc \in {"AuthBase", "Auth", "AuthFollow"} /\ ~IsLoginName(req.ParamNames[paramIdx])) =>
          log = <<>>

\* The auth-bypass probe has returned at its name test for id, the second
\* parameter, after a bypass request was sent for Login, the first.
C15_Witness ==
    /\ req.ParamNames = <<"Login", "id">>
    /\ last.probe = "AuthBypass"
    /\ last.failure = "gate"
    /\ last.idx = 2
    /\ unread

\* Where Scan is after a probe returned without a hit.
AfterProbe ==
    [p \in {"Error", "Time", "Boolean", "Content", "AuthBypass"} |->
        CASE p = "Error"      -> "TimeBase"
          [] p = "Time"       -> "BoolBase"
          [] p = "Boolean"    -> "ContentBase"
          [] p = "Content"    -> "AuthBase"
          [] p = "AuthBypass" -> "param"]

\* Where each probe's payload loop starts an attempt, and how many payloads it has.
LoopOf ==
    [p \in {"Error", "Time", "Boolean", "Content", "AuthBypass"} |->
        CASE p = "Error"      -> "Error"
          [] p = "Time"       -> "Time"
          [] p = "Boolean"    -> "BoolTrue"
          [] p = "Content"    -> "Content"
          [] p = "AuthBypass" -> "Auth"]

PayloadCount ==
    [p \in {"Error", "Time", "Boolean", "Content", "AuthBypass"} |->
        CASE p = "Error"      -> Len(SQLiPayloads)
          [] p = "Time"       -> Len(TimeBasedSQLiTests)
          [] p = "Boolean"    -> Len(BooleanSQLiTests)
          [] p = "Content"    -> 6
          [] p = "AuthBypass" -> 3]

\* The probe has left: the next one is called for the same parameter, or, after
\* the auth-bypass probe, Scan goes on to the next parameter; nothing is found.
ProbeLeft(probe) ==
    /\ findings' = findings
    /\ pc' = AfterProbe[probe]
    /\ log' = <<>>
    /\ IF probe = "AuthBypass"
       THEN paramIdx' = paramIdx + 1 /\ trace' = trace
       ELSE /\ paramIdx' = paramIdx
            /\ trace' = Append(trace, [idx |-> paramIdx, probe |-> ProbeAt(pc'),
                                        hit |-> FALSE])

\* C16: a step in which the baseline of the time, boolean, content or
\* auth-bypass probe fails (the values do not parse, the request cannot be
\* built, the exchange or the reading of the body fails) ends that probe with
\* no finding and before any injected request, and calls the next probe in
\* the order for the same parameter.
C16_BaselineFailure ==
    [][(pc \in {"TimeBase", "BoolBase", "ContentBase", "AuthBase"}
          /\ last'.failure \notin {"", "gate"}) =>
         /\ last'.kind = "base"
         /\ last'.probe = ProbeAt(pc)
         /\ \A i \in 1..Len(log) : log[i].kind = "base"
         /\ ProbeLeft(ProbeAt(pc))]_vars

\* The baseline request of the boolean probe failed in transport and the
\* content probe is about to send its own.
C16_Witness ==
    /\ last.probe = "Boolean"
    /\ last.kind = "base"
    /\ last.failure = "transport"
    /\ pc = "ContentBase"
    /\ trace[Len(trace)].probe = "Content"

\* C17: a step in which an injected request (or the follow-up GET) fails in
\* transport finds nothing; the probe goes on with the next payload in list
\* order, its baseline as it was, and after the last payload it returns without
\* a hit.
C17_TransportSkip ==
    [][(InProbe /\ last'.kind # "base" /\ last'.failure = "transport") =>
         /\ last'.probe = ProbeAt(pc)
         /\ last'.k = k
         /\ IF k < PayloadCount[ProbeAt(pc)]
            THEN /\ findings' = findings
                 /\ trace' = trace
                 /\ paramIdx' = paramIdx
                 /\ pc' = LoopOf[ProbeAt(pc)]
                 /\ k' = k + 1
                 /\ UNCHANGED <<baselineDuration, originalBody, originalLength,
                                failureBaselineBody>>
                 /\ Deref(originalParams') = Deref(originalParams)
            ELSE ProbeLeft(ProbeAt(pc))]_vars

\* The FALSE request of the first boolean pair failed in transport and the probe
\* is at the TRUE request of the second pair, its baseline kept.
C17_Witness ==
    /\ last.probe = "Boolean"
    /\ last.kind = "injectFalse"
    /\ last.failure = "transport"
    /\ last.k = 1
    /\ pc = "BoolTrue"
    /\ k = 2
    /\ originalBody = PageA

\* C18: the content probe takes the length of its own baseline body; its
\* requests are the baseline and then the bypass payloads in list order; an
\* answered injected request hits iff 10 * modifiedLength > 11 * originalLength,
\* and then modifiedLength > originalLength; the finding reports the payload of
\* that request; a failed request does not hit.
C18_ContentDecision ==
    /\ (last.probe = "Content" /\ last.kind = "base" /\ last.failure = "") =>
          pc = "Content" /\ k = 1 /\ originalLength = Len(last.resp.body)
    /\ pc = "Content" =>
          /\ log[1] = [kind |-> "base", k |-> 1]
          /\ \A i \in 2..Len(log) : log[i] = [kind |-> "inject", k |-> i - 1]
          /\ k = Len(log)
          /\ last.kind = "inject" => last.base = <<originalLength>>
    /\ (last.probe = "Content" /\ last.kind = "inject" /\ last.failure = "") =>
          /\ (pc = "param") <=> (10 * Len(last.resp.body) > 11 * last.base[1])
          /\ pc = "param" =>
                /\ Len(last.resp.body) > last.base[1]
                /\ LastFinding.VulnerabilityType = "SQL Injection (Content-Based)"
                /\ LastFinding.Payload = ContentPayloads[last.k]
                /\ LastFinding.Parameter = req.ParamNames[last.idx]
    /\ (last.probe = "Content" /\ (last.kind = "base" \/ last.failure # "")) =>
          pc # "param"

\* The third payload's body of 23 bytes hit against a baseline of 20.
C18_Witness ==
    /\ last.probe = "Content"
    /\ last.kind = "inject"
    /\ last.k = 3
    /\ last.base = <<20>>
    /\ Len(last.resp.body) = 23
    /\ pc = "param"
    /\ LastFinding.Payload = " OR 1=1--"

\* Whether pattern i of the catalog occurs in the body.
Occurs(body, i) == IndexOf(body, SQLiErrorPatterns[i]) # 0

\* C20: the error probe tries the payloads in catalog order; an answered
\* request hits iff some pattern of the catalog matches its body, the finding
\* then has that request's payload and, as evidence, the match of the first
\* pattern in catalog order that matches, and the probe sends nothing more; a
\* failed request does not hit; and when the last payload's response matches no
\* pattern the probe returns without a hit.
C20_FirstErrorHit ==
    /\ pc = "Error" =>
          /\ k <= Len(SQLiPayloads)
          /\ \A i \in 1..Len(log) : log[i].kind = "inject" /\ log[i].k < k
          /\ \A i, j \in 1..Len(log) : i < j => log[i].k < log[j].k
          /\ ~LastProbeHit
    /\ (last.probe = "Error" /\ last.failure = "") =>
          /\ (pc = "param") <=> (\E i \in 1..Len(SQLiErrorPatterns) : Occurs(last.resp.body, i))
          /\ pc = "param" =>
                /\ LastProbeHit
                /\ log = <<>>
                /\ LastFinding.VulnerabilityType = "SQL Injection (Error-Based)"
                /\ LastFinding.Payload = SQLiPayloads[last.k]
                /\ \E i \in 1..Len(SQLiErrorPatterns) :
                      /\ Occurs(last.resp.body, i)
                      /\ \A j \in 1..(i - 1) : ~Occurs(last.resp.body, j)
                      /\ LastFinding.Evidence = SQLiErrorPatterns[i]
    /\ (last.probe = "Error" /\ last.failure # "") => pc # "param"
    /\ (last.probe = "Error" /\ pc # "param") =>
          IF last.k < Len(SQLiPayloads)
          THEN pc = "Error" /\ k = last.k + 1
          ELSE pc = "TimeBase" /\ ~LastProbeHit

\* The second payload's response holds both patterns, after the first payload's
\* held none: the hit reports the second payload and the first pattern.
C20_Witness ==
    /\ last.probe = "Error"
    /\ last.k = 2
    /\ last.resp.body = PageSQL
    /\ pc = "param"
    /\ LastFinding.Payload = SQLiPayloads[2]
    /\ LastFinding.Evidence = "SQL syntax"

\* C11: when two calls on different requests have run concurrently and then
\* serially against the same server, each call's findings after the serial run
\* are the ones it returned after the concurrent run.
C11_Reentrant ==
    (other # NoFrame /\ run = 2 /\ pc = "done" /\ other.pc = "done") => Results = prev

\* Both pairs of calls have returned, each call with a finding, and in the
\* concurrent run the two calls were inside Scan at the same time.
C11_Witness ==
    /\ other # NoFrame
    /\ run = 2
    /\ pc = "done"
    /\ other.pc = "done"
    /\ other.mixed
    /\ findings # <<>>
    /\ other.findings # <<>>
    /\ findings # other.findings

\* C19: whatever is written to the map copyParams returned, the original map
\* still holds the values it was made with.
C19_IndependentCopy == pc = "copied" => Deref(originalParams) = OriginalValues

\* Cell (i, j) of the edit-distance table of a and b, from the two diagonals
\* before its own: d1 holds the cells (i, j - 1) and (i - 1, j), d2 the cell
\* (i - 1, j - 1); a diagonal is indexed by i + 1.
EditCell(a, b, i, j, d1, d2) ==
    IF j < 0 \/ j > Len(b) THEN 0
    ELSE IF i = 0 THEN j
    ELSE IF j = 0 THEN i
    ELSE Min2(Min2(d1[i] + 1, d1[i + 1] + 1),
              d2[i] + (IF Ch(a, i) = Ch(b, j) THEN 0 ELSE 1))

RECURSIVE EditDiagonals(_, _, _, _, _)
\* The table diagonal by diagonal: d1 is diagonal n - 1 (the cells with
\* i + j = n - 1), d2 the one before; the distance is the last cell.
EditDiagonals(a, b, n, d1, d2) ==
    IF Len(d1) = Len(a) + 1 /\ n <= Len(a) + Len(b)
    THEN EditDiagonals(a, b, n + 1,
                       [x \in 1..(Len(a) + 1) |-> EditCell(a, b, x - 1, n - (x - 1), d1, d2)],
                       d1)
    ELSE d1[Len(a) + 1]

\* The Levenshtein distance of a and b with unit costs, by the textbook table
\* filled along its diagonals.
EditDistance(a, b) ==
    EditDiagonals(a, b, 1, [x \in 1..(Len(a) + 1) |-> 0], [x \in 1..(Len(a) + 1) |-> 0])

LongerLen(a, b) == IF Len(a) >= Len(b) THEN Len(a) ELSE Len(b)

\* C21: isDifferent(a, b) holds iff 20 * distance > max(len(a), len(b)), the
\* distance being the Levenshtein distance; it is false for two empty strings
\* and for identical strings, true when exactly one string is empty, and the
\* same with its arguments exchanged.
C21_IsDifferent ==
    (diff # <<>> /\ diff.results # <<>>) =>
        LET a == diff.original
            b == diff.modified
        IN  /\ diff.results[1] <=> (20 * EditDistance(a, b) > LongerLen(a, b))
            /\ (a = "" /\ b = "") => ~diff.results[1]
            /\ a = b => ~diff.results[1]
            /\ ((a = "") # (b = "")) => diff.results[1]
            /\ diff.results[1] = diff.results[2]

\* Two pages of 20 bytes one substitution apart have been compared, a
\* similarity of exactly 0.95: not different.
C21_Witness ==
    /\ diff # <<>>
    /\ diff.original = PageA
    /\ diff.modified = PageA1
    /\ diff.results = <<FALSE, FALSE>>

====
